---- MODULE Spec2Model ----
(***************************************************************************)
(* Model of the prompt-enhancement pipeline of breeze-prompter:            *)
(*   app/services/role_detector.py     complexity tier and role advice     *)
(*   app/services/prompt_enhancer.py   the tiered orchestration            *)
(*   app/services/knowledge_updater.py current-knowledge integration       *)
(*   app/api/routes.py                 the two endpoints                   *)
(*   app/utils/openrouter.py           the backend completion client       *)
(*                                                                         *)
(* Texts are TLA+ strings, handled character by character with Len,       *)
(* SubSeq and \o, so that substring tests, splitting and slicing are       *)
(* computed as the Python code computes them.  A TLA+ string cannot hold   *)
(* a backquote: the character ~ stands for the backquote throughout, so    *)
(* the Markdown fence of the code is written "~~~json" and "~~~".          *)
(***************************************************************************)
EXTENDS Integers, Sequences, FiniteSets, TLC

(***************************************************************************)
(* Python str operations                                                   *)
(***************************************************************************)

\* s[i] for a 1-based index
CharAt(s, i) == SubSeq(s, i, i)

\* the 1-based positions at which pat occurs in s
Occurrences(s, pat) ==
    { i \in 1..(Len(s) - Len(pat) + 1) : SubSeq(s, i, i + Len(pat) - 1) = pat }

\* Python: pat in s
Contains(s, pat) == Occurrences(s, pat) # {}

\* Python: s.startswith(pat)
StartsWith(s, pat) == Len(pat) <= Len(s) /\ SubSeq(s, 1, Len(pat)) = pat

SetMin(S) == CHOOSE m \in S : \A n \in S : m <= n
SetMax(S) == CHOOSE m \in S : \A n \in S : m >= n

\* Python: s.find(pat) / s.index(pat), as a 1-based position (0 when absent)
Find(s, pat) == IF Contains(s, pat) THEN SetMin(Occurrences(s, pat)) ELSE 0

\* Python: s.rfind(pat) / s.rindex(pat), as a 1-based position (0 when absent)
RFind(s, pat) == IF Contains(s, pat) THEN SetMax(Occurrences(s, pat)) ELSE 0

\* Python: s.count(pat) for a one-character pat
Count(s, pat) == Cardinality(Occurrences(s, pat))

UpperCase == "ABCDEFGHIJKLMNOPQRSTUVWXYZ"
LowerCase == "abcdefghijklmnopqrstuvwxyz"

LowerChar(c) ==
    IF Contains(UpperCase, c) THEN CharAt(LowerCase, Find(UpperCase, c)) ELSE c

RECURSIVE Lower(_)
\* Python: s.lower(), one half of the text after the other
Lower(s) ==
    IF Len(s) = 0 THEN ""
    ELSE IF Len(s) = 1 THEN LowerChar(s)
    ELSE Lower(SubSeq(s, 1, Len(s) \div 2))
         \o Lower(SubSeq(s, Len(s) \div 2 + 1, Len(s)))

IsSpace(c) == c \in {" ", "\n", "\t", "\r"}

\* Python: s.strip()
Strip(s) ==
    LET keep == { i \in 1..Len(s) : ~IsSpace(CharAt(s, i)) }
    IN  IF keep = {} THEN "" ELSE SubSeq(s, SetMin(keep), SetMax(keep))

\* Python: len(s.split()), the number of maximal runs of non-space characters
WordCount(s) ==
    Cardinality({ i \in 1..Len(s) :
        /\ ~IsSpace(CharAt(s, i))
        /\ (i = 1 \/ IsSpace(CharAt(s, i - 1))) })

\* Python: s.split(sep)[1] when sep occurs in s: what follows the first sep,
\* up to a later part boundary, is cut by the caller
AfterFirst(s, sep) == SubSeq(s, Find(s, sep) + Len(sep), Len(s))

\* Python: s.split(sep)[0]
BeforeFirst(s, sep) ==
    IF Contains(s, sep) THEN SubSeq(s, 1, Find(s, sep) - 1) ELSE s

RECURSIVE SplitLines(_)
\* Python: s.split("\n")
SplitLines(s) ==
    IF Contains(s, "\n")
    THEN <<BeforeFirst(s, "\n")>> \o SplitLines(AfterFirst(s, "\n"))
    ELSE <<s>>

RECURSIVE JoinLines(_)
\* Python: "\n".join(lines)
JoinLines(lines) ==
    IF lines = <<>> THEN ""
    ELSE IF Len(lines) = 1 THEN lines[1]
    ELSE lines[1] \o "\n" \o JoinLines(Tail(lines))

(***************************************************************************)
(* role_detector.py                                                        *)
(***************************************************************************)

\* PromptContext, by value
Contexts == {"coding", "writing", "analysis", "creative", "technical", "general"}

AnyIn(s, pats) == \E pat \in pats : Contains(s, pat)
\* a count that stops at the first pattern found
HowManyIn_AtMostOne(s, pats) == IF AnyIn(s, pats) THEN 1 ELSE 0

HowManyIn(s, pats) == Cardinality({ pat \in pats : Contains(s, pat) })

SIMPLE_QUERY_INDICATORS ==
    { "what is", "what's", "how many", "how much", "when is", "when was",
      "where is", "where are", "list", "name", "define", "calculate",
      "convert", "translate", "what time", "what date", "who is", "who was" }

ROLE_BENEFICIAL_INDICATORS ==
    { "write", "create", "design", "analyze", "review", "optimize", "debug",
      "explain like", "act as", "pretend", "imagine", "develop", "architect",
      "diagnose", "troubleshoot", "evaluate", "assess", "critique", "refactor" }

\* None is written as the empty string
None == ""

CONTEXT_ROLES(context) ==
    CASE context = "coding" -> "expert software engineer"
      [] context = "writing" -> "professional writer and editor"
      [] context = "analysis" -> "data analyst"
      [] context = "creative" -> "creative professional"
      [] context = "technical" -> "technical expert"
      [] OTHER -> None

\* a needs_role that looks at the domain before anything else
needs_role_DomainFirst(prompt, context) ==
    IF context \in {"coding", "writing", "technical"}
    THEN <<TRUE, CONTEXT_ROLES(context)>>
    ELSE <<FALSE, None>>

\* a needs_role that asks for a role only when it sees an action verb
needs_role_VerbsOnly(prompt, context) ==
    LET prompt_lower == Strip(Lower(prompt))
    IN  IF \/ \E ind \in SIMPLE_QUERY_INDICATORS : StartsWith(prompt_lower, ind)
           \/ WordCount(prompt) < 5
           \/ AnyIn(prompt_lower, {"you are", "act as", "pretend to be", "imagine you're"})
           \/ ~AnyIn(prompt_lower, ROLE_BENEFICIAL_INDICATORS)
        THEN <<FALSE, None>>
        ELSE <<TRUE, IF context = "general" THEN "expert assistant"
                     ELSE CONTEXT_ROLES(context)>>

\* a needs_role that tries the keyword buckets in the reverse order
needs_role_DesignFirst(prompt, context) ==
    LET prompt_lower == Strip(Lower(prompt))
        role ==
            IF CONTEXT_ROLES(context) = None \/ context = "general"
            THEN IF AnyIn(prompt_lower, {"design", "ui", "ux", "interface"})
                 THEN "UI/UX designer"
                 ELSE IF AnyIn(prompt_lower, {"data", "statistics", "metrics", "analysis"})
                 THEN "data analyst"
                 ELSE IF AnyIn(prompt_lower, {"essay", "article", "blog", "story"})
                 THEN "professional writer"
                 ELSE IF AnyIn(prompt_lower, {"code", "program", "function", "algorithm"})
                 THEN "expert software engineer"
                 ELSE "expert assistant"
            ELSE CONTEXT_ROLES(context)
    IN  IF \/ \E ind \in SIMPLE_QUERY_INDICATORS : StartsWith(prompt_lower, ind)
           \/ WordCount(prompt) < 5
           \/ AnyIn(prompt_lower, {"you are", "act as", "pretend to be", "imagine you're"})
           \/ ~(\/ AnyIn(prompt_lower, ROLE_BENEFICIAL_INDICATORS)
                \/ context \in {"coding", "writing", "technical"})
        THEN <<FALSE, None>>
        ELSE <<TRUE, role>>

\* RoleDetector.needs_role: <<needs_role, suggested_role>>
needs_role(prompt, context) ==
    LET prompt_lower == Strip(Lower(prompt))
        indicated == AnyIn(prompt_lower, ROLE_BENEFICIAL_INDICATORS)
        needs == indicated \/ context \in {"coding", "writing", "technical"}
        looked_up == CONTEXT_ROLES(context)
        role ==
            IF looked_up = None \/ context = "general"
            THEN IF AnyIn(prompt_lower, {"code", "program", "function", "algorithm"})
                 THEN "expert software engineer"
                 ELSE IF AnyIn(prompt_lower, {"essay", "article", "blog", "story"})
                 THEN "professional writer"
                 ELSE IF AnyIn(prompt_lower, {"data", "statistics", "metrics", "analysis"})
                 THEN "data analyst"
                 ELSE IF AnyIn(prompt_lower, {"design", "ui", "ux", "interface"})
                 THEN "UI/UX designer"
                 ELSE "expert assistant"
            ELSE looked_up
    IN  IF \E ind \in SIMPLE_QUERY_INDICATORS : StartsWith(prompt_lower, ind)
        THEN <<FALSE, None>>
        ELSE IF WordCount(prompt) < 5
        THEN <<FALSE, None>>
        ELSE IF AnyIn(prompt_lower, {"you are", "act as", "pretend to be", "imagine you're"})
        THEN <<FALSE, None>>
        ELSE IF needs THEN <<TRUE, role>> ELSE <<FALSE, None>>

\* a pattern list that knows the interrogative phrases only
simple_patterns_Interrogatives ==
    { "what is", "how many", "how much", "when is", "when was", "where is" }

simple_patterns ==
    { "what is", "what's", "how many", "how much", "when is", "when was",
      "where is", "list", "name", "define", "calculate", "convert", "translate" }

explain_patterns == { "explain", "describe how", "how does", "how do" }

multi_step_indicators ==
    { "and then", "after that", "next", "finally", "first", "second",
      "step by step", "detailed", "comprehensive", "complete" }

technical_indicators ==
    { "implement", "architect", "design", "optimize", "refactor",
      "debug", "integrate", "deploy", "configure", "analyze",
      "evaluate", "compare", "benchmark", "profile", "test" }

\* a creation list of the six verbs alone, without the phrases
creation_indicators_Verbs ==
    { "build", "create", "develop", "make", "construct", "generate" }

creation_indicators ==
    { "build", "create", "develop", "make", "construct", "generate",
      "write a program", "write an app", "write a system", "build an app" }

scope_simple == { "basic", "simple", "quick", "small" }

scope_complex ==
    { "entire", "full", "complete", "comprehensive", "production", "enterprise",
      "scalable", "real-time", "production-ready" }

multiple_indicators ==
    { "multiple", "various", "different", "several", "many",
      "list of", "array of", "collection of" }

constraint_indicators ==
    { "must", "should", "need to", "require", "ensure",
      "make sure", "guarantee", "with", "without", "using" }

code_tokens == { "()", "{}", "[]", "->", "=>", "function", "class", "def" }

\* The ten contributions get_complexity_level adds to its complexity_score,
\* each doubled: the score moves in steps of 1.5, so the model keeps the
\* double of every amount, an integer.
complexity_signals(prompt) ==
    LET prompt_lower == Lower(prompt)
        word_count == WordCount(prompt)
        softened == IF Contains(prompt_lower, "simple")
                    THEN { ind \in {"create", "make"} : Contains(prompt_lower, ind) }
                    ELSE {}
    IN  [ simple_query |->
              IF AnyIn(prompt_lower, simple_patterns) THEN -4
              ELSE IF AnyIn(prompt_lower, explain_patterns) THEN 2
              ELSE 0,
          length |->
              IF word_count < 5 THEN -2
              ELSE IF word_count < 10 THEN 0
              ELSE IF word_count < 20 THEN 2
              ELSE IF word_count < 40 THEN 4
              ELSE 6,
          multi_step |-> 3 * HowManyIn(prompt_lower, multi_step_indicators),
          technical |-> 2 * HowManyIn(prompt_lower, technical_indicators),
          creation |->
              2 * Cardinality(softened)
              + 6 * (HowManyIn(prompt_lower, creation_indicators) - Cardinality(softened)),
          scope_simple |->
              IF AnyIn(prompt_lower, scope_simple)
                 /\ ~AnyIn(prompt_lower, {"create", "build", "make"})
              THEN -2 ELSE 0,
          scope_complex |-> IF AnyIn(prompt_lower, scope_complex) THEN 6 ELSE 0,
          multiple |-> IF AnyIn(prompt_lower, multiple_indicators) THEN 2 ELSE 0,
          constraint |->
              IF HowManyIn(prompt_lower, constraint_indicators) > 2 THEN 2 ELSE 0,
          question |->
              IF Count(prompt, "?") > 1 THEN 2 * (Count(prompt, "?") - 1) ELSE 0,
          code |-> IF AnyIn(prompt, code_tokens) THEN 2 ELSE 0 ]

\* Twice the complexity_score of get_complexity_level
complexity_score2(prompt) ==
    LET s == complexity_signals(prompt)
    IN  s.simple_query + s.length + s.multi_step + s.technical + s.creation
        + s.scope_simple + s.scope_complex + s.multiple + s.constraint
        + s.question + s.code

\* a get_complexity_level that keeps its score in whole numbers
get_complexity_level_Truncated(prompt) ==
    LET score == complexity_score2(prompt) \div 2
    IN  IF score <= -1 THEN "simple"
        ELSE IF score <= 3 THEN "moderate"
        ELSE "complex"

\* RoleDetector.get_complexity_level: score <= -1, score <= 3, else
get_complexity_level(prompt) ==
    LET score2 == complexity_score2(prompt)
    IN  IF score2 <= -2 THEN "simple"
        ELSE IF score2 <= 6 THEN "moderate"
        ELSE "complex"

(***************************************************************************)
(* Python values, as json.loads and the code's dict literals produce them  *)
(***************************************************************************)

JStr(s) == [t |-> "str", s |-> s]
JInt(n) == [t |-> "int", n |-> n]
JList(xs) == [t |-> "list", xs |-> xs]
JDict(d) == [t |-> "dict", d |-> d]
JNull == [t |-> "null"]

IsStr(v) == v.t = "str"
IsInt(v) == v.t = "int"
IsList(v) == v.t = "list"
IsDict(v) == v.t = "dict"

\* Python truthiness: bool(v)
Truthy(v) ==
    CASE IsStr(v) -> v.s # ""
      [] IsInt(v) -> v.n # 0
      [] IsList(v) -> v.xs # <<>>
      [] IsDict(v) -> DOMAIN v.d # {}
      [] OTHER -> FALSE

HasKey(v, key) == key \in DOMAIN v.d

\* Python: v.get(key, default) on a dict v
Get(v, key, default) == IF HasKey(v, key) THEN v.d[key] ELSE default

\* Python: v[key] = val on a dict v
SetKey(v, key, val) ==
    JDict([k \in DOMAIN v.d \cup {key} |-> IF k = key THEN val ELSE v.d[k]])

\* the outcome of a Python call: a value, or an exception
Returned(v) == [raised |-> FALSE, value |-> v]
Raised(what) == [raised |-> TRUE, error |-> what]

(***************************************************************************)
(* The JSON texts the backend is taken to produce, and json.loads          *)
(***************************************************************************)

EnhancedFullJson ==
    "{\"enhanced_prompt\": \"Answer precisely\\n### Instruction\\nUse one sentence\\n### Output\\nPlain text\", \"explanation\": \"Adds structure\", \"tips\": [\"Be specific\"]}"
EnhancedNoTipsJson ==
    "{\"enhanced_prompt\": \"Improved prompt\", \"explanation\": \"Clearer\"}"
EnhancedNoExplanationJson == "{\"enhanced_prompt\": \"Improved prompt\"}"
EnhancedEmptyJson == "{\"enhanced_prompt\": \"\", \"explanation\": \"Nothing to change\"}"
ListJson == "[\"a\", \"b\"]"
AnalysisFullJson ==
    "{\"intent\": \"Sort numbers\", \"ambiguities\": [\"language\", \"order\", \"input type\", \"stability\"], \"missing_elements\": [\"examples\"], \"strengths\": [\"concise\"], \"context_gaps\": [\"audience\", \"use case\", \"scale\"]}"
AnalysisBadAmbiguitiesJson == "{\"intent\": \"Sort numbers\", \"ambiguities\": 5}"
AnalysisBadGapsJson == "{\"intent\": \"Sort numbers\", \"context_gaps\": 7}"
ScoreFullJson ==
    "{\"clarity\": 80, \"specificity\": 70, \"completeness\": 75, \"overall\": 76}"
ScoreOutOfRangeJson ==
    "{\"clarity\": 150, \"specificity\": -5, \"completeness\": 75, \"overall\": 76}"
ScorePartialJson == "{\"clarity\": 90}"

\* a completion that repeats the prompt as its enhancement
EchoJson(original) ==
    "{\"enhanced_prompt\": \"" \o original \o "\", \"explanation\": \"Already clear\"}"

\* a prompt EchoJson embeds without escaping
Embeddable(original) ==
    ~AnyIn(original, {"\"", "\\", "\n", "\t", "\r"})

EnhancedFull ==
    JDict([enhanced_prompt |-> JStr("Answer precisely\n### Instruction\nUse one sentence\n### Output\nPlain text"),
           explanation |-> JStr("Adds structure"),
           tips |-> JList(<<JStr("Be specific")>>)])
EnhancedNoTips ==
    JDict([enhanced_prompt |-> JStr("Improved prompt"), explanation |-> JStr("Clearer")])
EnhancedNoExplanation == JDict([enhanced_prompt |-> JStr("Improved prompt")])
EnhancedEmpty ==
    JDict([enhanced_prompt |-> JStr(""), explanation |-> JStr("Nothing to change")])
AnalysisFull ==
    JDict([intent |-> JStr("Sort numbers"),
           ambiguities |-> JList(<<JStr("language"), JStr("order"),
                                   JStr("input type"), JStr("stability")>>),
           missing_elements |-> JList(<<JStr("examples")>>),
           strengths |-> JList(<<JStr("concise")>>),
           context_gaps |-> JList(<<JStr("audience"), JStr("use case"), JStr("scale")>>)])
AnalysisBadAmbiguities == JDict([intent |-> JStr("Sort numbers"), ambiguities |-> JInt(5)])
AnalysisBadGaps == JDict([intent |-> JStr("Sort numbers"), context_gaps |-> JInt(7)])
ScoreFull ==
    JDict([clarity |-> JInt(80), specificity |-> JInt(70),
           completeness |-> JInt(75), overall |-> JInt(76)])
ScoreOutOfRange ==
    JDict([clarity |-> JInt(150), specificity |-> JInt(-5),
           completeness |-> JInt(75), overall |-> JInt(76)])
ScorePartial == JDict([clarity |-> JInt(90)])

\* json.loads on the texts above; every other text the model hands it is
\* not JSON and raises
JsonTable ==
    (EnhancedFullJson :> EnhancedFull)
    @@ (EnhancedNoTipsJson :> EnhancedNoTips)
    @@ (EnhancedNoExplanationJson :> EnhancedNoExplanation)
    @@ (EnhancedEmptyJson :> EnhancedEmpty)
    @@ (ListJson :> JList(<<JStr("a"), JStr("b")>>))
    @@ (AnalysisFullJson :> AnalysisFull)
    @@ (AnalysisBadAmbiguitiesJson :> AnalysisBadAmbiguities)
    @@ (AnalysisBadGapsJson :> AnalysisBadGaps)
    @@ (ScoreFullJson :> ScoreFull)
    @@ (ScoreOutOfRangeJson :> ScoreOutOfRange)
    @@ (ScorePartialJson :> ScorePartial)

\* json.loads(json_str); original is the prompt an echoing completion repeats
JsonLoads(json_str, original) ==
    IF json_str \in DOMAIN JsonTable THEN Returned(JsonTable[json_str])
    ELSE IF Embeddable(original) /\ json_str = EchoJson(original)
    THEN Returned(JDict([enhanced_prompt |-> JStr(original),
                         explanation |-> JStr("Already clear")]))
    ELSE Raised("JSONDecodeError")

(***************************************************************************)
(* Extraction of the JSON text from a completion                           *)
(***************************************************************************)

\* response.split("~~~json")[1].split("~~~")[0].strip()
FencedBlock(response) ==
    Strip(BeforeFirst(AfterFirst(response, "~~~json"), "~~~"))

\* _analyze_prompt: the fenced block, else the whole completion
AnalysisJsonStr(response) ==
    IF Contains(response, "~~~json") THEN FencedBlock(response) ELSE response

\* _generate_enhanced_prompt, _generate_simple_enhancement: the fenced block,
\* else the slice from the first "{" to the last "}", else the whole completion
EnhancementJsonStr(response) ==
    IF Contains(response, "~~~json") THEN FencedBlock(response)
    ELSE IF Contains(response, "{") /\ Contains(response, "}")
    THEN SubSeq(response, Find(response, "{"), RFind(response, "}"))
    ELSE response

\* re.search(r'\{[^}]+\}', response): the leftmost "{" followed by at least
\* one character other than "}" and then a "}"; <<first, last>> or <<>>
BraceMatch(response) ==
    LET closing(i) == { j \in (i + 1)..Len(response) : CharAt(response, j) = "}" }
        starts == { i \in 1..Len(response) :
                      /\ CharAt(response, i) = "{"
                      /\ closing(i) # {}
                      /\ SetMin(closing(i)) >= i + 2 }
    IN  IF starts = {} THEN <<>>
        ELSE <<SetMin(starts), SetMin(closing(SetMin(starts)))>>

\* _score_prompt: the fenced block, else the regular-expression match, else
\* the whole completion
ScoreJsonStr(response) ==
    IF Contains(response, "~~~json") THEN FencedBlock(response)
    ELSE IF BraceMatch(response) # <<>>
    THEN SubSeq(response, BraceMatch(response)[1], BraceMatch(response)[2])
    ELSE response

(***************************************************************************)
(* prompt_enhancer.py: the steps of PromptEnhancer                         *)
(***************************************************************************)

\* _generate_default_enhancement, the worked example for sort prompts
SortExample ==
    "Write a Python function called ~sort_array~ that implements the quicksort algorithm to sort a list of integers.\n"
    \o "\n"
    \o "Requirements:\n"
    \o "- Function signature: ~def sort_array(arr: List[int]) -> List[int]:~\n"
    \o "- Sort in ascending order\n"
    \o "- Handle edge cases: empty list, single element, duplicates\n"
    \o "- Include type hints\n"
    \o "- Add a docstring with description and usage example\n"
    \o "- Time complexity should be O(n log n) average case\n"
    \o "\n"
    \o "Example usage:\n"
    \o "~~~python\n"
    \o "result = sort_array([3, 1, 4, 1, 5, 9, 2, 6])\n"
    \o "print(result)  # Output: [1, 1, 2, 3, 4, 5, 6, 9]\n"
    \o "~~~\n"
    \o "\n"
    \o "Return the sorted list without modifying the original."

DefaultSuffix ==
    "\n\nPlease provide:\n"
    \o "1. Specific requirements and constraints\n"
    \o "2. Expected output format\n"
    \o "3. Any relevant context or background\n"
    \o "4. Examples if applicable"

\* PromptEnhancer._generate_default_enhancement
generate_default_enhancement(original, context) ==
    IF Contains(Lower(original), "sort") /\ context = "coding"
    THEN SortExample
    ELSE original \o DefaultSuffix

\* _analyze_prompt, the dict of the except branch
AnalysisFallback ==
    JDict([intent |-> JStr("Unable to parse"),
           ambiguities |-> JList(<<>>),
           missing_elements |-> JList(<<>>),
           strengths |-> JList(<<>>),
           context_gaps |-> JList(<<>>)])

\* enhance_prompt, the analysis of the simple tier
SimpleAnalysis ==
    JDict([intent |-> JStr("simple query"),
           ambiguities |-> JList(<<>>),
           missing_elements |-> JList(<<>>),
           strengths |-> JList(<<>>),
           context_gaps |-> JList(<<>>)])

\* PromptEnhancer._analyze_prompt, from the completion on: any exception of
\* the extraction or of json.loads gives the fallback
analyze_prompt(response, original) ==
    LET parsed == JsonLoads(AnalysisJsonStr(response), original)
    IN  IF parsed.raised THEN AnalysisFallback ELSE parsed.value

\* ', '.join(value[:3]) of the user message: a str, or a list whose first
\* three items are str
Joinable(value) ==
    \/ IsStr(value)
    \/ /\ IsList(value)
       /\ \A i \in 1..Len(value.xs) : i <= 3 => IsStr(value.xs[i])

\* PromptEnhancer._generate_enhanced_prompt, up to the completion call: the
\* user message reads analysis.get(...) and joins two of its lists
user_message(analysis) ==
    IF ~IsDict(analysis) THEN Raised("AttributeError")
    ELSE IF ~Joinable(Get(analysis, "ambiguities", JList(<<>>)))
            \/ ~Joinable(Get(analysis, "missing_elements", JList(<<>>)))
    THEN Raised("TypeError")
    ELSE Returned(Get(analysis, "intent", JStr("unknown")))

\* _generate_enhanced_prompt, the dict of the except branch
EnhancedFallback(original, context) ==
    JDict([enhanced_prompt |-> JStr(generate_default_enhancement(original, context)),
           explanation |-> JStr("The enhanced prompt provides specific requirements, constraints, and expected output format for better AI comprehension."),
           tips |-> JList(<<JStr("Always specify the programming language"),
                            JStr("Include input/output examples"),
                            JStr("Define edge cases and constraints")>>)])

\* PromptEnhancer._generate_enhanced_prompt, from the completion on
generate_enhanced_prompt(original, context, response) ==
    LET parsed == JsonLoads(EnhancementJsonStr(response), original)
    IN  IF parsed.raised \/ ~IsDict(parsed.value)
        THEN EnhancedFallback(original, context)
        ELSE LET result == parsed.value
                 given == Get(result, "enhanced_prompt", JNull)
             IN  IF ~Truthy(given) \/ given = JStr(original)
                 THEN SetKey(result, "enhanced_prompt",
                             JStr(generate_default_enhancement(original, context)))
                 ELSE result

\* _generate_simple_enhancement, the dict of the except branch
SimpleFallback(original) ==
    JDict([enhanced_prompt |-> JStr(original \o " (Please provide more specific details)"),
           explanation |-> JStr("Added request for more details"),
           tips |-> JList(<<JStr("Be more specific about your requirements")>>)])

\* PromptEnhancer._generate_simple_enhancement, from the completion on: what
\* json.loads gives is returned as it is
generate_simple_enhancement(original, response) ==
    LET parsed == JsonLoads(EnhancementJsonStr(response), original)
    IN  IF parsed.raised THEN SimpleFallback(original) ELSE parsed.value

\* schemas.PromptScore
PromptScore(c, s, m, o) ==
    [clarity |-> c, specificity |-> s, completeness |-> m, overall |-> o]

\* a PromptScore whose int fields carry no ge/le constraint
ScoreFieldValid_AnyInt(v) == IsInt(v)

\* schemas.PromptScore, Field(..., ge=0, le=100) of an int field
ScoreFieldValid(v) == IsInt(v) /\ v.n >= 0 /\ v.n <= 100

FallbackScore == PromptScore(50, 50, 50, 50)

\* PromptEnhancer._score_prompt, from the completion on: an exception of the
\* extraction, of json.loads, of scores.get or of the validation of
\* PromptScore gives the fallback
score_prompt(response, original) ==
    LET parsed == JsonLoads(ScoreJsonStr(response), original)
        field(key) == Get(parsed.value, key, JInt(50))
    IN  IF parsed.raised \/ ~IsDict(parsed.value) THEN FallbackScore
        ELSE IF \A key \in {"clarity", "specificity", "completeness", "overall"} :
                    ScoreFieldValid(field(key))
        THEN PromptScore(field("clarity").n, field("specificity").n,
                         field("completeness").n, field("overall").n)
        ELSE FallbackScore

\* enhance_prompt, the estimated scores of the simple and moderate tiers
EstimatedScores(complexity) ==
    IF complexity = "simple"
    THEN [before |-> PromptScore(60, 50, 50, 53), after |-> PromptScore(90, 85, 85, 87)]
    ELSE [before |-> PromptScore(70, 65, 60, 65), after |-> PromptScore(85, 80, 80, 82)]

\* schemas.Improvement (before and after are always None)
Improvement(category, description) ==
    [category |-> category, description |-> description]

\* f"{item}" of an item of an analysis list
Format(item) ==
    CASE IsStr(item) -> item.s
      [] IsInt(item) -> ToString(item.n)
      [] OTHER -> "?"

\* a slice that keeps every item, whatever the limit
FirstItems_Uncapped(value, n) ==
    IF IsStr(value)
    THEN [i \in 1..Len(value.s) |-> JStr(CharAt(value.s, i))]
    ELSE value.xs

\* value[:n] of a str or a list, as a sequence of items
FirstItems(value, n) ==
    IF IsStr(value)
    THEN [i \in 1..(IF Len(value.s) < n THEN Len(value.s) ELSE n) |->
              JStr(CharAt(value.s, i))]
    ELSE SubSeq(value.xs, 1, IF Len(value.xs) < n THEN Len(value.xs) ELSE n)

\* one block of _extract_improvements: if analysis.get(key): for item in
\* analysis[key][:n]: append
ImprovementsOf(analysis, key, n, category, prefix) ==
    LET value == Get(analysis, key, JNull)
    IN  IF ~Truthy(value) THEN Returned(<<>>)
        ELSE IF ~(IsStr(value) \/ IsList(value)) THEN Raised("TypeError")
        ELSE Returned([i \in 1..Len(FirstItems(value, n)) |->
                 Improvement(category, prefix \o Format(FirstItems(value, n)[i]))])

StructureImprovement ==
    Improvement("Structure", "Reorganized prompt for better AI comprehension")

\* PromptEnhancer._extract_improvements
extract_improvements(analysis) ==
    IF ~IsDict(analysis) THEN Raised("AttributeError") ELSE
    LET clarity == ImprovementsOf(analysis, "ambiguities", 3, "Clarity",
                                  "Clarified ambiguous element: ")
        completeness == ImprovementsOf(analysis, "missing_elements", 3,
                                       "Completeness", "Added missing element: ")
        ctx == ImprovementsOf(analysis, "context_gaps", 2, "Context",
                              "Added context: ")
    IN  IF clarity.raised THEN clarity
        ELSE IF completeness.raised THEN completeness
        ELSE IF ctx.raised THEN ctx
        ELSE Returned(clarity.value \o completeness.value \o ctx.value
                      \o <<StructureImprovement>>)

\* Python: str(item) for item in tips
TipTexts(tips) == [i \in 1..Len(tips.xs) |-> Format(tips.xs[i])]

\* enhance_prompt, lines 97-105: PromptResponse(...) from the enhanced dict;
\* enhanced["enhanced_prompt"] and enhanced["explanation"] raise on a value
\* that is no dict or lacks the key, and the str fields are validated
PromptResponse(original, enhanced, improvements, before, after) ==
    IF ~IsDict(enhanced) THEN Raised("TypeError")
    ELSE IF ~HasKey(enhanced, "enhanced_prompt") \/ ~HasKey(enhanced, "explanation")
    THEN Raised("KeyError")
    ELSE IF ~IsStr(enhanced.d["enhanced_prompt"]) \/ ~IsStr(enhanced.d["explanation"])
            \/ ~IsList(Get(enhanced, "tips", JList(<<>>)))
    THEN Raised("ValidationError")
    ELSE Returned([original_prompt |-> original,
                   enhanced_prompt |-> enhanced.d["enhanced_prompt"].s,
                   improvements |-> improvements,
                   explanation |-> enhanced.d["explanation"].s,
                   score_before |-> before,
                   score_after |-> after,
                   tips |-> TipTexts(Get(enhanced, "tips", JList(<<>>)))])

(***************************************************************************)
(* knowledge_updater.py                                                    *)
(***************************************************************************)

time_sensitive_keywords ==
    { "latest", "current", "today", "recent", "now", "2025", "2024",
      "news", "update", "trending", "modern", "state-of-the-art",
      "best practices", "new features", "release", "version" }

technical_terms_needing_updates ==
    { "GPT-5", "GPT-4", "Claude", "Gemini", "AI model",
      "framework", "library", "API", "documentation",
      "benchmark", "performance", "optimization" }

\* a should_fetch_current_info that looks for the time-sensitive keywords
\* only
should_fetch_current_info_KeywordsOnly(prompt, context) ==
    AnyIn(Lower(prompt), time_sensitive_keywords)

\* KnowledgeUpdater.should_fetch_current_info
should_fetch_current_info(prompt, context) ==
    LET prompt_lower == Lower(prompt)
    IN  \/ AnyIn(prompt_lower, time_sensitive_keywords)
        \/ \E term \in technical_terms_needing_updates :
               Contains(prompt_lower, Lower(term))
        \/ /\ context \in {"coding", "technical", "analysis"}
           /\ AnyIn(prompt_lower, {"how to", "implement", "use", "setup"})

\* should_enhance_with_knowledge, lines 239-247: the checks dict
knowledge_checks(prompt, context) ==
    [is_time_sensitive |-> should_fetch_current_info(prompt, context),
     is_technical |-> context \in {"coding", "technical", "analysis"},
     mentions_specific_tech |->
         AnyIn(Lower(prompt), {"gpt-5", "api", "framework", "latest", "current"}),
     is_long_form |-> WordCount(prompt) > 20]

\* a should_enhance_with_knowledge that goes by the score whatever the
\* caller prefers
should_enhance_with_knowledge_IgnoringPreference(prompt, context, preference) ==
    LET weight(flag, w) == IF flag THEN w ELSE 0
        c == knowledge_checks(prompt, context)
    IN  weight(c.is_time_sensitive, 3) + weight(c.is_technical, 2)
        + weight(c.mentions_specific_tech, 2) + weight(c.is_long_form, 1) >= 3

\* SmartKnowledgeIntegration.should_enhance_with_knowledge
should_enhance_with_knowledge(prompt, context, preference) ==
    LET weight(flag, w) == IF flag THEN w ELSE 0
        score == weight(should_fetch_current_info(prompt, context), 3)
                 + weight(context \in {"coding", "technical", "analysis"}, 2)
                 + weight(AnyIn(Lower(prompt),
                                {"gpt-5", "api", "framework", "latest", "current"}), 2)
                 + weight(WordCount(prompt) > 20, 1)
    IN  IF preference = "always" THEN TRUE
        ELSE IF preference = "never" THEN FALSE
        ELSE score >= 3

RECURSIVE Words(_)
\* Python: s.split()
Words(s) ==
    LET t == Strip(s)
        spaces == { i \in 1..Len(t) : IsSpace(CharAt(t, i)) }
    IN  IF t = "" THEN <<>>
        ELSE IF spaces = {} THEN <<t>>
        ELSE <<SubSeq(t, 1, SetMin(spaces) - 1)>>
             \o Words(SubSeq(t, SetMin(spaces), Len(t)))

\* Python: " ".join(words)
RECURSIVE JoinWords(_)
JoinWords(words) ==
    IF words = <<>> THEN ""
    ELSE IF Len(words) = 1 THEN words[1]
    ELSE words[1] \o " " \o JoinWords(Tail(words))

\* a slice that keeps the whole sequence, whatever its limit
FirstN_Uncapped(seq, n) == seq

\* Python: seq[:n]
FirstN(seq, n) == SubSeq(seq, 1, IF Len(seq) < n THEN Len(seq) ELSE n)

tech_terms ==
    << "react", "vue", "angular", "python", "javascript",
       "fastapi", "django", "tensorflow", "pytorch" >>

\* KnowledgeUpdater._extract_search_terms
extract_search_terms(prompt, context) ==
    LET prompt_lower == Lower(prompt)
        found == IF context = "coding"
                 THEN SelectSeq(tech_terms, LAMBDA term : Contains(prompt_lower, term))
                 ELSE <<>>
        tech == [i \in 1..Len(found) |-> found[i] \o " latest features 2025"]
        gpt == IF Contains(prompt_lower, "gpt") THEN <<"GPT-5 capabilities 2025">> ELSE <<>>
        claude == IF Contains(prompt_lower, "claude")
                  THEN <<"Claude AI latest updates 2025">> ELSE <<>>
        terms == tech \o gpt \o claude
    IN  IF terms = <<>>
        THEN <<JoinWords(FirstN(Words(prompt), 5)) \o " 2025">>
        ELSE terms

\* what the search provider does with one query: an answer (possibly with an
\* empty AbstractText), or an exception with its str()
ProviderReplies ==
    { [ok |-> TRUE, AbstractText |-> "Python 3.13 is the latest stable release",
       AbstractSource |-> "Wikipedia"],
      [ok |-> TRUE, AbstractText |-> "", AbstractSource |-> ""],
      [ok |-> FALSE, message |-> "Temporary failure in name resolution"],
      [ok |-> FALSE, message |-> ""] }

\* KnowledgeUpdater.fetch_current_knowledge: the except branch returns a dict
\* with "error": str(e)
fetch_current_knowledge(query, reply) ==
    IF reply.ok
    THEN JDict([query |-> JStr(query),
                instant_answer |-> JStr(reply.AbstractText),
                source |-> JStr(reply.AbstractSource)])
    ELSE JDict([query |-> JStr(query), error |-> JStr(reply.message)])

\* enhance_with_current_knowledge, line 139: knowledge and not
\* knowledge.get("error")
IsCurrentInfo(knowledge) ==
    Truthy(knowledge) /\ ~Truthy(Get(knowledge, "error", JNull))

RECURSIVE InfoLines(_)
\* _generate_temporal_context, the lines of the current_info loop
InfoLines(current_info) ==
    IF current_info = <<>> THEN <<>>
    ELSE LET info == Head(current_info)
             answer == Get(info, "instant_answer", JNull)
             source == Get(info, "source", JNull)
         IN  (IF Truthy(answer)
              THEN <<"- " \o info.d["query"].s \o ": "
                     \o FirstN(answer.s, 200) \o "...">>
                   \o (IF Truthy(source)
                       THEN <<"  Source: " \o source.s>> ELSE <<>>)
              ELSE <<>>)
             \o InfoLines(Tail(current_info))

\* KnowledgeUpdater._generate_temporal_context; current_date is the
\* strftime('%Y-%m-%d') of datetime.now()
generate_temporal_context(current_info, current_date) ==
    JoinLines(<<"### Temporal Context",
                "Knowledge Cutoff: January 2025",
                "Current Date: " \o current_date,
                "Information Freshness: Real-time">>
              \o (IF current_info # <<>>
                  THEN <<"\n### Current Information">> \o InfoLines(current_info)
                  ELSE <<>>))

\* Python: lines.insert(index, item), index counted from 0
Insert(lines, index, item) ==
    SubSeq(lines, 1, index) \o <<item>> \o SubSeq(lines, index + 1, Len(lines))

\* an integrate_knowledge that puts the temporal context in front of the
\* text, wherever its markers are
Splice_AtFront(enhanced_prompt, temporal_context) ==
    IF temporal_context # ""
    THEN temporal_context \o "\n\n" \o enhanced_prompt
    ELSE enhanced_prompt

\* integrate_knowledge, lines 284-300: the temporal context goes after the
\* first line that starts with "###", or to the front
Splice(enhanced_prompt, temporal_context) ==
    LET lines == SplitLines(enhanced_prompt)
        marked == { i \in 1..Len(lines) : StartsWith(lines[i], "###") }
        insert_index == IF marked = {} THEN 0 ELSE SetMin(marked)
    IN  IF temporal_context # ""
        THEN JoinLines(Insert(Insert(lines, insert_index, temporal_context),
                              insert_index + 1, ""))
        ELSE JoinLines(lines)

(***************************************************************************)
(* Requests, and what the backend completion service may answer            *)
(***************************************************************************)

SimplePrompt == "What's the capital of France?"
LatestPrompt == "List the latest Python version features"
SortPrompt == "Write a Python function to sort an array of integers"
BuildPrompt == "Build a real-time chat application with user authentication"
ComparePrompt == "Compare the latest React, Vue and Angular releases"
ShortPrompt == "Hi"
DocumentPrompt == "improve this text"

Document == "Our company has been growing rapidly over the past year."

\* PromptRequest and GPTPromptRequest, with the endpoint that receives them;
\* document is "" when no document_context is supplied
Request(endpoint, prompt, context, style, fetch, document) ==
    [endpoint |-> endpoint, prompt |-> prompt, context |-> context,
     style |-> style, fetch |-> fetch, document |-> document]

Requests ==
    { Request("perfect-prompt", p, c, "detailed", FALSE, "") :
        p \in {SimplePrompt, SortPrompt, ShortPrompt}, c \in {"general", "coding"} }
    \cup
    { Request("perfect-prompt", BuildPrompt, "general", "detailed", FALSE, ""),
      Request("perfect-prompt", SortExample, "coding", "detailed", FALSE, ""),
      Request("perfect-prompt", SimplePrompt, "general", "detailed", TRUE, ""),
      Request("perfect-prompt", LatestPrompt, "coding", "detailed", TRUE, ""),
      Request("perfect-prompt", SortPrompt, "general", "detailed", TRUE, ""),
      Request("perfect-prompt", ComparePrompt, "coding", "detailed", TRUE, ""),
      Request("perfect-prompt", BuildPrompt, "coding", "detailed", TRUE, "") }
    \cup
    { Request("gpt-enhance", p, "writing", "concise", f, d) :
        p \in {SimplePrompt, DocumentPrompt, ShortPrompt},
        f \in BOOLEAN, d \in {"", Document} }
    \cup
    { Request("gpt-enhance", p, "writing", "concise", FALSE, Document) :
        p \in { "Please edit and improve this", "Review my credit notes",
                "Explain, then translate", "Fix it.",
                "Make this text shorter" } }

\* the texts a completion may be, whatever the call
Completions(original) ==
    { "not json at all",
      EnhancedFullJson,
      "Here you go:\n~~~json\n" \o EnhancedNoTipsJson \o "\n~~~\nDone.",
      "Sure! " \o EnhancedNoExplanationJson \o " Hope it helps.",
      EnhancedEmptyJson,
      ListJson,
      AnalysisFullJson,
      "Analysis: " \o AnalysisFullJson,
      AnalysisBadAmbiguitiesJson,
      AnalysisBadGapsJson,
      ScoreFullJson,
      "Scores: " \o ScoreOutOfRangeJson,
      "~~~json\n" \o ScorePartialJson \o "\n~~~" }
    \cup (IF Embeddable(original) THEN {EchoJson(original)} ELSE {})

\* what one POST to the completion service comes to: the text of the
\* completion, or a transport failure (unreachable, non-success status)
BackendReplies(original) ==
    { [ok |-> TRUE, text |-> c] : c \in Completions(original) }
    \cup { [ok |-> FALSE] }

\* the replies drawn for a request that is served twice
RepeatedReplies(original) ==
    { [ok |-> TRUE, text |-> c] :
        c \in { "not json at all",
                EnhancedFullJson,
                "Sure! " \o EnhancedNoExplanationJson \o " Hope it helps.",
                AnalysisFullJson,
                AnalysisBadAmbiguitiesJson,
                ScoreFullJson,
                "Scores: " \o ScoreOutOfRangeJson } }
    \cup { [ok |-> FALSE] }

\* datetime.now().strftime("%Y-%m-%d")
Dates == {"2025-08-15", "2025-08-16"}

(***************************************************************************)
(* routes.py, and PromptEnhancer.enhance_with_document                     *)
(***************************************************************************)

\* the lookup of enhance_with_document with its verbs in alphabetical order
action_keywords_Alphabetical ==
    << <<"analyze", "Provide a detailed analysis of the content">>,
       <<"edit", "Edit for grammar, style, and coherence">>,
       <<"explain", "Explain the main concepts in simpler terms">>,
       <<"improve", "Review and enhance the provided text for clarity and impact">>,
       <<"review", "Provide feedback and suggestions for improvement">>,
       <<"rewrite", "Rewrite the content for better clarity and flow">>,
       <<"summarize", "Create a concise summary of the key points">>,
       <<"translate", "Translate the content accurately">> >>

action_keywords ==
    << <<"improve", "Review and enhance the provided text for clarity and impact">>,
       <<"summarize", "Create a concise summary of the key points">>,
       <<"analyze", "Provide a detailed analysis of the content">>,
       <<"edit", "Edit for grammar, style, and coherence">>,
       <<"rewrite", "Rewrite the content for better clarity and flow">>,
       <<"review", "Provide feedback and suggestions for improvement">>,
       <<"translate", "Translate the content accurately">>,
       <<"explain", "Explain the main concepts in simpler terms">> >>

\* PromptEnhancer.enhance_with_document: no completion is requested
enhance_with_document(prompt, document, context, style) ==
    LET prompt_lower == Lower(prompt)
        hits == { i \in 1..Len(action_keywords) :
                    Contains(prompt_lower, action_keywords[i][1]) }
        action_found ==
            IF hits # {} THEN action_keywords[SetMin(hits)][2]
            ELSE IF WordCount(prompt) < 3
            THEN "Process and improve the provided document"
            ELSE prompt
    IN  "Given the document provided as context, please " \o action_found \o ".\n\n"
        \o "Document context to work with:\n" \o document \o "\n\n"
        \o "Requirements:\n"
        \o "- Focus on " \o context \o " quality and " \o style \o " style\n"
        \o "- Maintain accuracy and original intent\n"
        \o "- Provide clear, actionable output\n"
        \o "- Be specific and thorough in your response"

\* perfect_prompt and gpt_enhance_prompt: not request.prompt or
\* len(request.prompt.strip()) < 5
TooShort(prompt) == prompt = "" \/ Len(Strip(prompt)) < 5

\* perfect_prompt: len(request.prompt) > 5000
TooLong(prompt) == Len(prompt) > 5000

\* a gpt_enhance_prompt that does not look at document_context
HasDocument_Never(document) == FALSE

\* gpt_enhance_prompt, line 84: if request.document_context
HasDocument(document) == document # ""

(***************************************************************************)
(* openrouter.py                                                           *)
(***************************************************************************)

\* a chat_completion that swallows the transport failure and hands back an
\* empty completion
chat_completion_Swallowing(reply) ==
    Returned(IF reply.ok THEN reply.text ELSE "")

\* OpenRouterClient.chat_completion: the content of the completion, or the
\* exception raised for a transport failure
chat_completion(reply) ==
    IF reply.ok THEN Returned(reply.text) ELSE Raised("transport")

(***************************************************************************)
(* The state of one request on the shared PromptEnhancer                   *)
(***************************************************************************)

Unset == [t |-> "unset"]

\* the value of complexity before enhance_prompt computes it
Unclassified == "unclassified"

VARIABLES
    req,           \* the request being served
    run,           \* 0: the request is served once; 1: the first of two runs
                   \* of the request; 2: its repetition
    pc,            \* where the handler of the request stands
    client,        \* PromptEnhancer._client: "none" until _get_client makes it
    complexity,    \* enhance_prompt's complexity
    calls,         \* the completion calls issued so far: kind, argument, success
    reply,         \* the reply to the latest completion call, until the
                   \* handler has gone past the completion calls
    queries,       \* the provider queries issued so far, with their replies
    integrating,   \* integrate_knowledge's argument enhanced_prompt
    analysis,      \* enhance_prompt's analysis
    enhanced,      \* enhance_prompt's enhanced
    score_before,  \* enhance_prompt's score_before
    score_after,   \* enhance_prompt's score_after
    pending,       \* the search terms still to be fetched
    current_info,  \* enhance_with_current_knowledge's current_info
    result,        \* what enhance_prompt returned
    outcome,       \* the HTTP response of the endpoint
    script,        \* the replies of the first run, for its repetition
    first,         \* result, outcome and complexity of the first run
    signals,       \* get_complexity_level's contributions to complexity_score
    advice,        \* what needs_role returned
    user_preference, \* should_enhance_with_knowledge's argument, when it is
                   \* asked alone
    checks,        \* should_enhance_with_knowledge's checks
    should_enhance, \* what should_enhance_with_knowledge returned
    suspended,     \* the locals of the other request in flight, while this
                   \* one runs
    constructed,   \* how many times OpenRouterClient() was constructed
    cache          \* SmartKnowledgeIntegration.cache

vars == <<req, run, pc, client, complexity, calls, reply, queries, integrating,
          analysis, enhanced, score_before, score_after, pending, current_info,
          result, outcome, script, first, signals, advice, user_preference,
          checks, should_enhance, suspended, constructed, cache>>

\* the values RoleDetector computed for the caller that asks for them alone
advisor == <<signals, advice>>

\* the argument, the checks and the answer of should_enhance_with_knowledge
\* for the caller that asks it alone
gate == <<user_preference, checks, should_enhance>>

Fresh ==
    /\ pc = "received"
    /\ complexity = Unclassified
    /\ calls = <<>>
    /\ reply = Unset
    /\ queries = <<>>
    /\ integrating = Unset
    /\ analysis = Unset
    /\ enhanced = Unset
    /\ score_before = Unset
    /\ score_after = Unset
    /\ pending = <<>>
    /\ current_info = <<>>
    /\ result = Unset
    /\ outcome = [status |-> "none"]
    /\ signals = Unset
    /\ advice = Unset
    /\ user_preference = "always"
    /\ checks = Unset
    /\ should_enhance = Unset
    /\ suspended = Unset
    /\ constructed = 0
    /\ cache = <<>>

Init ==
    /\ req \in Requests
    /\ run = 0
    /\ client = "none"
    /\ script = <<>>
    /\ first = Unset
    /\ Fresh

\* an exception leaves enhance_prompt; the endpoint turns it into a 500
Throw(error) ==
    /\ pc' = "done"
    /\ outcome' = [status |-> "500", error |-> error]

\* an enhance_prompt that, once the shared client exists, no longer classifies
\* the prompt and takes every request for a moderate one
Enter_CachedTier ==
    /\ complexity' = IF client = "ready" THEN "moderate"
                     ELSE get_complexity_level(req.prompt)
    /\ pc' = IF complexity' = "simple" THEN "simple" ELSE "analyze"
    /\ UNCHANGED outcome

\* enhance_prompt, lines 37-51: the tier decides the first call
Enter ==
    /\ complexity' = get_complexity_level(req.prompt)
    /\ pc' = IF complexity' = "simple" THEN "simple" ELSE "analyze"
    /\ UNCHANGED outcome

\* routes.perfect_prompt, up to the first await of enhance_prompt
PerfectPrompt ==
    /\ UNCHANGED <<advisor, gate, suspended, cache>>
    /\ pc = "received"
    /\ req.endpoint = "perfect-prompt"
    /\ IF TooShort(req.prompt) \/ TooLong(req.prompt)
       THEN /\ pc' = "done"
            /\ outcome' = [status |-> "400"]
            /\ UNCHANGED complexity
       ELSE Enter
    /\ UNCHANGED <<integrating, req, run, client, constructed, calls, reply, queries, analysis, enhanced,
                   score_before, score_after, pending, current_info, result,
                   script, first>>

\* routes.gpt_enhance_prompt, up to the first await of enhance_prompt, or to
\* the response of the document path
GptEnhancePrompt ==
    /\ UNCHANGED <<advisor, gate, suspended, cache>>
    /\ pc = "received"
    /\ req.endpoint = "gpt-enhance"
    /\ IF TooShort(req.prompt)
       THEN /\ pc' = "done"
            /\ outcome' = [status |-> "400"]
            /\ UNCHANGED complexity
       ELSE IF HasDocument(req.document)
       THEN /\ pc' = "done"
            /\ outcome' = [status |-> "200",
                           body |-> [enhanced_prompt |->
                               enhance_with_document(req.prompt, req.document,
                                                     req.context, req.style)]]
            /\ UNCHANGED complexity
       ELSE Enter
    /\ UNCHANGED <<integrating, req, run, client, constructed, calls, reply, queries, analysis, enhanced,
                   score_before, score_after, pending, current_info, result,
                   script, first>>

\* the replies the backend may give to the next call: any, but on the
\* repetition of a request the reply it gave at the same position before
Replies ==
    IF run = 2 /\ Len(calls) < Len(script)
    THEN {script[Len(calls) + 1]}
    ELSE IF run = 0 THEN BackendReplies(req.prompt)
    ELSE RepeatedReplies(req.prompt)

\* an enhance_prompt that integrates knowledge whatever the request's flag
AfterCalls_Always == "integrate"

\* enhance_prompt, lines 82-83, after the last completion call
AfterCalls == IF req.fetch THEN "integrate" ELSE "respond"

\* a _get_client that makes a client of its own for every call
get_client_Unshared(held) == [client |-> "ready", made |-> 1]

\* PromptEnhancer._get_client: the client is made when none is held; made
\* counts the OpenRouterClient() constructions of the call
get_client(held) ==
    IF held = "none" THEN [client |-> "ready", made |-> 1]
    ELSE [client |-> held, made |-> 0]

\* one completion call: _get_client() and chat_completion(...)
Call(kind, arg, r) ==
    /\ client' = get_client(client).client
    /\ constructed' = constructed + get_client(client).made
    /\ calls' = Append(calls, [kind |-> kind, arg |-> arg, ok |-> r.ok])
    /\ reply' = r
    /\ script' = IF run = 1 THEN Append(script, r) ELSE script

\* enhance_prompt, lines 40-50: _generate_simple_enhancement
SimpleEnhancement ==
    /\ UNCHANGED <<advisor, gate, suspended, cache>>
    /\ pc = "simple"
    /\ \E r \in Replies :
        /\ Call("simple", req.prompt, r)
        /\ IF chat_completion(r).raised
           THEN /\ Throw(chat_completion(r).error)
                /\ UNCHANGED <<analysis, enhanced, score_before, score_after>>
           ELSE /\ enhanced' = generate_simple_enhancement(
                                   req.prompt, chat_completion(r).value)
                /\ analysis' = SimpleAnalysis
                /\ score_before' = EstimatedScores("simple").before
                /\ score_after' = EstimatedScores("simple").after
                /\ pc' = AfterCalls
                /\ UNCHANGED outcome
    /\ UNCHANGED <<integrating, req, run, complexity, queries, pending, current_info, result, first>>

\* enhance_prompt, line 54: _analyze_prompt
AnalyzePrompt ==
    /\ UNCHANGED <<advisor, gate, suspended, cache>>
    /\ pc = "analyze"
    /\ \E r \in Replies :
        /\ Call("analysis", req.prompt, r)
        /\ IF chat_completion(r).raised
           THEN /\ Throw(chat_completion(r).error)
                /\ UNCHANGED analysis
           ELSE /\ analysis' = analyze_prompt(chat_completion(r).value, req.prompt)
                /\ pc' = "generate"
                /\ UNCHANGED outcome
    /\ UNCHANGED <<integrating, req, run, complexity, queries, enhanced, score_before, score_after,
                   pending, current_info, result, first>>

\* an enhance_prompt that scores every analysed prompt, moderate ones too
NeedsScoring_EveryAnalysed(level) == level # "simple"

\* enhance_prompt, line 71: if complexity == "complex"
NeedsScoring(level) == level = "complex"

\* enhance_prompt, lines 60-80: _generate_enhanced_prompt, whose user message
\* is built from the analysis before the completion is requested, and the
\* estimated scores of the moderate tier
GenerateEnhancedPrompt ==
    /\ UNCHANGED <<advisor, gate, suspended, cache>>
    /\ pc = "generate"
    /\ IF user_message(analysis).raised
       THEN /\ Throw(user_message(analysis).error)
            /\ UNCHANGED <<client, constructed, calls, reply, script, enhanced, score_before,
                           score_after>>
       ELSE \E r \in Replies :
            /\ Call("enhancement", req.prompt, r)
            /\ IF chat_completion(r).raised
               THEN /\ Throw(chat_completion(r).error)
                    /\ UNCHANGED <<enhanced, score_before, score_after>>
               ELSE /\ enhanced' = generate_enhanced_prompt(
                                       req.prompt, req.context,
                                       chat_completion(r).value)
                    /\ UNCHANGED outcome
                    /\ IF NeedsScoring(complexity)
                       THEN /\ pc' = "score_before"
                            /\ UNCHANGED <<score_before, score_after>>
                       ELSE /\ score_before' = EstimatedScores("moderate").before
                            /\ score_after' = EstimatedScores("moderate").after
                            /\ pc' = AfterCalls
    /\ UNCHANGED <<integrating, req, run, complexity, queries, analysis, pending, current_info,
                   result, first>>

\* enhance_prompt, line 73: _score_prompt(request.prompt)
ScoreOriginal ==
    /\ UNCHANGED <<advisor, gate, suspended, cache>>
    /\ pc = "score_before"
    /\ \E r \in Replies :
        /\ Call("score", req.prompt, r)
        /\ IF chat_completion(r).raised
           THEN /\ Throw(chat_completion(r).error)
                /\ UNCHANGED score_before
           ELSE /\ score_before' = score_prompt(chat_completion(r).value, req.prompt)
                /\ pc' = "score_after"
                /\ UNCHANGED outcome
    /\ UNCHANGED <<integrating, req, run, complexity, queries, analysis, enhanced, score_after,
                   pending, current_info, result, first>>

\* enhance_prompt, line 74: _score_prompt(enhanced["enhanced_prompt"])
ScoreEnhanced ==
    /\ UNCHANGED <<advisor, gate, suspended, cache>>
    /\ pc = "score_after"
    /\ \E r \in Replies :
        /\ Call("score", enhanced.d["enhanced_prompt"].s, r)
        /\ IF chat_completion(r).raised
           THEN /\ Throw(chat_completion(r).error)
                /\ UNCHANGED score_after
           ELSE /\ score_after' = score_prompt(chat_completion(r).value, req.prompt)
                /\ pc' = AfterCalls
                /\ UNCHANGED outcome
    /\ UNCHANGED <<integrating, req, run, complexity, queries, analysis, enhanced, score_before,
                   pending, current_info, result, first>>

\* enhance_prompt, lines 83-89, up to the first provider query:
\* enhanced["enhanced_prompt"] is read, then integrate_knowledge asks
\* should_enhance_with_knowledge (preference "always") and
\* enhance_with_current_knowledge asks should_fetch_current_info
IntegrateKnowledge ==
    /\ UNCHANGED <<advisor, gate, suspended, cache>>
    /\ pc = "integrate"
    /\ IF ~IsDict(enhanced)
       THEN Throw("TypeError") /\ UNCHANGED <<pending, integrating>>
       ELSE IF ~HasKey(enhanced, "enhanced_prompt")
       THEN Throw("KeyError") /\ UNCHANGED <<pending, integrating>>
       ELSE /\ integrating' = enhanced.d["enhanced_prompt"]
            /\ IF /\ should_enhance_with_knowledge(req.prompt, req.context, "always")
                  /\ should_fetch_current_info(req.prompt, req.context)
               THEN /\ pending' = FirstN(extract_search_terms(req.prompt, req.context), 2)
                    /\ pc' = "fetch"
                    /\ UNCHANGED outcome
               ELSE /\ pc' = "respond"
                    /\ UNCHANGED <<pending, outcome>>
    /\ reply' = Unset
    /\ UNCHANGED <<req, run, client, constructed, complexity, calls, queries, analysis,
                   enhanced, score_before, score_after, current_info, result,
                   script, first>>

\* enhance_with_current_knowledge, lines 137-140: one provider query; after
\* the last one, lines 142-158 and integrate_knowledge, lines 281-300
FetchCurrentKnowledge ==
    /\ UNCHANGED <<advisor, gate, suspended, cache>>
    /\ pc = "fetch"
    /\ \E answer \in ProviderReplies :
        LET knowledge == fetch_current_knowledge(Head(pending), answer)
            info == IF IsCurrentInfo(knowledge)
                    THEN Append(current_info, knowledge) ELSE current_info
        IN  /\ queries' = Append(queries, [query |-> Head(pending), reply |-> answer])
            /\ current_info' = info
            /\ pending' = Tail(pending)
            /\ IF Tail(pending) # <<>>
               THEN UNCHANGED <<pc, outcome, enhanced>>
               ELSE IF info = <<>>
               THEN /\ pc' = "respond"
                    /\ UNCHANGED <<outcome, enhanced>>
               ELSE IF ~IsStr(enhanced.d["enhanced_prompt"])
               THEN Throw("AttributeError") /\ UNCHANGED enhanced
               ELSE \E current_date \in Dates :
                    /\ enhanced' = SetKey(enhanced, "enhanced_prompt",
                           JStr(Splice(enhanced.d["enhanced_prompt"].s,
                                       generate_temporal_context(info, current_date))))
                    /\ pc' = "respond"
                    /\ UNCHANGED outcome
    /\ UNCHANGED <<integrating, req, run, client, constructed, complexity, calls, reply, analysis,
                   score_before, score_after, result, script, first>>

\* the body of the 200 response: perfect_prompt returns the PromptResponse,
\* gpt_enhance_prompt only its enhanced_prompt
Body(endpoint, response) ==
    IF endpoint = "gpt-enhance"
    THEN [enhanced_prompt |-> response.enhanced_prompt]
    ELSE response

\* enhance_prompt, lines 92-105, and the return of the endpoint
Respond ==
    /\ UNCHANGED <<advisor, gate, suspended, cache>>
    /\ pc = "respond"
    /\ pc' = "done"
    /\ LET improvements == extract_improvements(analysis)
           response == PromptResponse(req.prompt, enhanced, improvements.value,
                                      score_before, score_after)
       IN  IF improvements.raised
           THEN /\ outcome' = [status |-> "500", error |-> improvements.error]
                /\ UNCHANGED result
           ELSE IF response.raised
           THEN /\ outcome' = [status |-> "500", error |-> response.error]
                /\ UNCHANGED result
           ELSE /\ result' = response.value
                /\ outcome' = [status |-> "200",
                               body |-> Body(req.endpoint, response.value)]
    /\ reply' = Unset
    /\ UNCHANGED <<integrating, req, run, client, constructed, complexity, calls, queries, analysis,
                   enhanced, score_before, score_after, pending, current_info,
                   script, first>>

\* the same request is sent again to the same PromptEnhancer, and the backend
\* repeats its replies
Rerun ==
    /\ pc = "done"
    /\ run = 1
    /\ run' = 2
    /\ first' = [result |-> result, outcome |-> outcome, complexity |-> complexity]
    /\ pc' = "received"
    /\ complexity' = Unclassified
    /\ calls' = <<>>
    /\ reply' = Unset
    /\ queries' = <<>>
    /\ integrating' = Unset
    /\ analysis' = Unset
    /\ enhanced' = Unset
    /\ score_before' = Unset
    /\ score_after' = Unset
    /\ pending' = <<>>
    /\ current_info' = <<>>
    /\ result' = Unset
    /\ outcome' = [status |-> "none"]
    /\ UNCHANGED <<req, client, constructed, script, advisor, gate, suspended,
                   cache>>

Next ==
    \/ PerfectPrompt
    \/ GptEnhancePrompt
    \/ SimpleEnhancement
    \/ AnalyzePrompt
    \/ GenerateEnhancedPrompt
    \/ ScoreOriginal
    \/ ScoreEnhanced
    \/ IntegrateKnowledge
    \/ FetchCurrentKnowledge
    \/ Respond

Spec == Init /\ [][Next]_vars

\* the handler of a request that has not ended is resumed and moves on to
\* another of its positions
Resume ==
    /\ pc # "done"
    /\ pc' \in { "received", "simple", "analyze", "generate", "score_before",
                 "score_after", "integrate", "fetch", "respond", "done" }

\* the service with handlers that are always resumed: each completion call
\* and each provider query comes back, with a reply or a failure, within its
\* timeout (openrouter.py, lines 26-39; knowledge_updater.py, line 70), and
\* the event loop runs the handler that is ready.  A handler that has not
\* ended always has a step of Next to take, so the condition is that of
\* WF_vars(Next), stated on the position alone.
SpecLive == Spec /\ WF_pc(Resume)

\* a request served twice in a row, knowledge fetch off
RepeatedRequests ==
    { r \in Requests : ~r.fetch /\ r.prompt # SortExample }

InitRepeat ==
    /\ req \in RepeatedRequests
    /\ run = 1
    /\ client = "none"
    /\ script = <<>>
    /\ first = Unset
    /\ Fresh

NextRepeat ==
    \/ PerfectPrompt
    \/ GptEnhancePrompt
    \/ SimpleEnhancement
    \/ AnalyzePrompt
    \/ GenerateEnhancedPrompt
    \/ ScoreOriginal
    \/ ScoreEnhanced
    \/ Respond
    \/ Rerun

SpecRepeat == InitRepeat /\ [][NextRepeat]_vars

(***************************************************************************)
(* Two requests in flight on the one PromptEnhancer of routes.py.  The     *)
(* handlers are coroutines of one event loop: a handler runs until it      *)
(* awaits a completion, and then the other may run.  The variables of the  *)
(* pipeline are the locals of the handler that runs; suspended holds the   *)
(* locals of the other.  When both have ended, one of the two requests is  *)
(* served again, alone, by a PromptEnhancer of its own, with the           *)
(* completions it was given.  The requests are of the simple and the       *)
(* moderate tier, and requests the endpoint refuses.                       *)
(***************************************************************************)

\* the locals of the handler that runs
Locals ==
    [req |-> req, pc |-> pc, complexity |-> complexity, calls |-> calls,
     reply |-> reply, queries |-> queries, integrating |-> integrating,
     analysis |-> analysis, enhanced |-> enhanced,
     score_before |-> score_before, score_after |-> score_after,
     pending |-> pending, current_info |-> current_info, result |-> result,
     outcome |-> outcome, script |-> script]

InitConcurrent ==
    /\ \E r \in RepeatedRequests, other \in RepeatedRequests :
          /\ r.endpoint = "perfect-prompt" /\ r.context = "general"
          /\ get_complexity_level(r.prompt) # "complex"
          /\ get_complexity_level(other.prompt) # "complex"
          /\ other.endpoint = "perfect-prompt" /\ other.context = "coding"
          /\ other.prompt # ShortPrompt
          /\ req = r
          /\ suspended =
                [req |-> other, pc |-> "received", complexity |-> Unclassified,
                 calls |-> <<>>, reply |-> Unset, queries |-> <<>>,
                 integrating |-> Unset, analysis |-> Unset, enhanced |-> Unset,
                 score_before |-> Unset, score_after |-> Unset,
                 pending |-> <<>>, current_info |-> <<>>, result |-> Unset,
                 outcome |-> [status |-> "none"], script |-> <<>>]
    /\ run = 1
    /\ client = "none"
    /\ script = <<>>
    /\ first = Unset
    /\ pc = "received"
    /\ complexity = Unclassified
    /\ calls = <<>>
    /\ reply = Unset
    /\ queries = <<>>
    /\ integrating = Unset
    /\ analysis = Unset
    /\ enhanced = Unset
    /\ score_before = Unset
    /\ score_after = Unset
    /\ pending = <<>>
    /\ current_info = <<>>
    /\ result = Unset
    /\ outcome = [status |-> "none"]
    /\ signals = Unset
    /\ advice = Unset
    /\ user_preference = "always"
    /\ checks = Unset
    /\ should_enhance = Unset
    /\ constructed = 0
    /\ cache = <<>>

\* the handler that runs awaits, or has ended, and the event loop runs the
\* other one
Yield ==
    /\ run = 1
    /\ suspended # Unset
    /\ suspended' = Locals
    /\ req' = suspended.req
    /\ pc' = suspended.pc
    /\ complexity' = suspended.complexity
    /\ calls' = suspended.calls
    /\ reply' = suspended.reply
    /\ queries' = suspended.queries
    /\ integrating' = suspended.integrating
    /\ analysis' = suspended.analysis
    /\ enhanced' = suspended.enhanced
    /\ score_before' = suspended.score_before
    /\ score_after' = suspended.score_after
    /\ pending' = suspended.pending
    /\ current_info' = suspended.current_info
    /\ result' = suspended.result
    /\ outcome' = suspended.outcome
    /\ script' = suspended.script
    /\ UNCHANGED <<run, client, constructed, cache, first, advisor, gate>>

\* both requests have ended; the one whose locals are at hand is sent to a
\* PromptEnhancer of its own, and the backend repeats the replies it gave
Alone ==
    /\ run = 1
    /\ suspended # Unset
    /\ pc = "done"
    /\ suspended.pc = "done"
    /\ run' = 2
    /\ first' = [result |-> result, outcome |-> outcome, complexity |-> complexity]
    /\ client' = "none"
    /\ constructed' = 0
    /\ pc' = "received"
    /\ complexity' = Unclassified
    /\ calls' = <<>>
    /\ reply' = Unset
    /\ queries' = <<>>
    /\ integrating' = Unset
    /\ analysis' = Unset
    /\ enhanced' = Unset
    /\ score_before' = Unset
    /\ score_after' = Unset
    /\ pending' = <<>>
    /\ current_info' = <<>>
    /\ result' = Unset
    /\ outcome' = [status |-> "none"]
    /\ UNCHANGED <<req, script, suspended, cache, advisor, gate>>

NextConcurrent ==
    \/ PerfectPrompt
    \/ SimpleEnhancement
    \/ AnalyzePrompt
    \/ GenerateEnhancedPrompt
    \/ Respond
    \/ Yield
    \/ Alone

SpecConcurrent == InitConcurrent /\ [][NextConcurrent]_vars

(***************************************************************************)
(* RoleDetector asked alone, as the loop of test_complexity_scoring.py     *)
(* asks it: get_complexity_level(prompt), then needs_role(prompt, context) *)
(***************************************************************************)

\* the prompts of the test table, with the tier the table expects
test_prompts ==
    { <<"What's the capital of France?", "simple">>,
      <<"Calculate 15% of 200", "simple">>,
      <<"Convert 100 USD to EUR", "simple">>,
      <<"Define machine learning", "simple">>,
      <<"List 5 fruits", "simple">>,
      <<"Write a Python function to reverse a string", "moderate">>,
      <<"Explain how photosynthesis works", "moderate">>,
      <<"Create a simple todo list in JavaScript", "moderate">>,
      <<"Compare Python and JavaScript", "moderate">>,
      <<"Build a real-time chat application with user authentication", "complex">>,
      <<"Create a comprehensive testing strategy for our e-commerce platform",
        "complex">>,
      <<"Design and implement a scalable microservices architecture", "complex">>,
      <<"Develop a machine learning model to predict customer churn with data "
        \o "preprocessing, feature engineering, model training, and evaluation",
        "complex">>,
      <<"Step by step guide to deploy a production-ready application", "complex">>,
      <<"build an app", "complex">>,
      <<"What is 2+2?", "simple">>,
      <<"Analyze customer data", "moderate">> }

\* the texts RoleDetector is asked about: the test table, and every text made
\* of an opening, a qualifier and an object
Texts ==
    { t[1] : t \in test_prompts }
    \cup
    { opening \o " " \o qualifier \o " " \o object :
        opening \in { "Build", "Create", "Develop", "Generate", "Explain",
                      "What is", "List", "Who is behind", "Please review",
                      "You are a tutor so write", "Act as a critic and assess",
                      "Tell me about", "Compare", "Write a program to make",
                      "Define how to design", "Explain what is" },
        qualifier \in { "a", "a simple", "a basic", "a scalable", "the first",
                        "an entire detailed" },
        object \in { "app",
                     "essay about the sea",
                     "function for the login page",
                     "report on sales metrics",
                     "user interface for the team",
                     "tool to compare prices",
                     "plan for a trip to Rome and then several hotels in the "
                       \o "city with prices?",
                     "checker that must ensure safety without using locks??",
                     "article on data and interface trends",
                     "statistics for the interface" } }

InitAdvise ==
    /\ \E text \in Texts, context \in Contexts :
          req = Request("perfect-prompt", text, context, "detailed", FALSE, "")
    /\ run = 0
    /\ client = "none"
    /\ script = <<>>
    /\ first = Unset
    /\ Fresh

\* detected = RoleDetector.get_complexity_level(prompt)
GetComplexityLevel ==
    /\ pc = "received"
    /\ signals' = complexity_signals(req.prompt)
    /\ complexity' = get_complexity_level(req.prompt)
    /\ pc' = "classified"
    /\ UNCHANGED <<req, run, client, constructed, calls, reply, queries, integrating,
                   analysis, enhanced, score_before, score_after, pending,
                   current_info, result, outcome, script, first, advice, gate,
                   suspended, cache>>

\* needs_role, suggested_role = RoleDetector.needs_role(prompt, context)
NeedsRole ==
    /\ pc = "classified"
    /\ advice' = needs_role(req.prompt, req.context)
    /\ pc' = "advised"
    /\ UNCHANGED <<req, run, client, constructed, complexity, calls, reply, queries,
                   integrating, analysis, enhanced, score_before, score_after,
                   pending, current_info, result, outcome, script, first,
                   signals, gate, suspended, cache>>

NextAdvise ==
    \/ GetComplexityLevel
    \/ NeedsRole

SpecAdvise == InitAdvise /\ [][NextAdvise]_vars

(***************************************************************************)
(* SmartKnowledgeIntegration asked alone whether to fetch current          *)
(* knowledge: should_enhance_with_knowledge(prompt, context, preference)   *)
(***************************************************************************)

\* the texts the question is asked about: a lead, a topic and a tail; the
\* tails have 0, 18 and 23 words
GateTexts ==
    { lead \o " " \o topic \o tail :
        lead \in { "Explain", "Write about", "How to use",
                   "Summarize the latest news on", "Design an API for",
                   "Choose a framework for", "Ask GPT-5 about",
                   "Tell me about the current state of" },
        topic \in { "cats", "sorting numbers", "house paint" },
        tail \in { "",
                   " in a way that a child of ten can follow and with two "
                     \o "short examples for each point",
                   " in a way that a child of ten can follow and with two "
                     \o "short examples for each and every important point "
                     \o "made there" } }

\* user_preference: Optional[str]
Preferences == {"always", "never", None}

InitGate ==
    /\ \E text \in GateTexts, context \in Contexts :
          req = Request("perfect-prompt", text, context, "detailed", TRUE, "")
    /\ run = 0
    /\ client = "none"
    /\ script = <<>>
    /\ first = Unset
    /\ pc = "received"
    /\ complexity = Unclassified
    /\ calls = <<>>
    /\ reply = Unset
    /\ queries = <<>>
    /\ integrating = Unset
    /\ analysis = Unset
    /\ enhanced = Unset
    /\ score_before = Unset
    /\ score_after = Unset
    /\ pending = <<>>
    /\ current_info = <<>>
    /\ result = Unset
    /\ outcome = [status |-> "none"]
    /\ signals = Unset
    /\ advice = Unset
    /\ user_preference \in Preferences
    /\ checks = Unset
    /\ should_enhance = Unset
    /\ suspended = Unset
    /\ constructed = 0
    /\ cache = <<>>

\* should_enhance_with_knowledge, lines 233-258: the preference returns
\* before the checks are made
ShouldEnhanceWithKnowledge ==
    /\ pc = "received"
    /\ checks' = IF user_preference \in {"always", "never"} THEN Unset
                 ELSE knowledge_checks(req.prompt, req.context)
    /\ should_enhance' =
          should_enhance_with_knowledge(req.prompt, req.context, user_preference)
    /\ pc' = "decided"
    /\ UNCHANGED <<req, run, client, constructed, complexity, calls, reply,
                   queries, integrating, analysis, enhanced, score_before,
                   score_after, pending, current_info, result, outcome, script,
                   first, advisor, user_preference, suspended, cache>>

SpecGate == InitGate /\ [][ShouldEnhanceWithKnowledge]_vars

(***************************************************************************)
(* Properties of the pipeline                                              *)
(***************************************************************************)

\* the request has left its handler
Done == pc = "done"

\* enhance_prompt was entered
Entered == complexity # Unclassified

\* every completion call issued so far came back with a completion
AllCallsSucceeded == \A i \in 1..Len(calls) : calls[i].ok

\* the kinds of the completion calls, in the order they were issued
CallKinds == [i \in 1..Len(calls) |-> calls[i].kind]

\* the enhanced text as it stood before knowledge integration
TextBeforeKnowledge ==
    IF integrating # Unset THEN integrating ELSE enhanced.d["enhanced_prompt"]

\* C1, as the specification states it: when enhance_prompt has ended and
\* every completion call it issued succeeded, the calls are the sequence of
\* the tier: one simple-enhancement call for a simple prompt; analysis then
\* enhancement for a moderate one; analysis, enhancement, score of the
\* original text, score of the enhanced text for a complex one, the last
\* score being asked about the text as it was before knowledge integration.
C1_CallSequenceFixedByTier ==
    (Done /\ Entered /\ AllCallsSucceeded) =>
        CASE complexity = "simple" -> CallKinds = <<"simple">>
          [] complexity = "moderate" -> CallKinds = <<"analysis", "enhancement">>
          [] complexity = "complex" ->
                /\ CallKinds = <<"analysis", "enhancement", "score", "score">>
                /\ calls[3].arg = req.prompt
                /\ JStr(calls[4].arg) = TextBeforeKnowledge

\* C2: a returned result of the simple tier carries the scores 60,50,50,53
\* and 90,85,85,87, one of the moderate tier 70,65,60,65 and 85,80,80,82,
\* whatever the backend answered; a result of the complex tier carries what
\* _score_prompt made of the replies to its third and fourth call.
C2_ScoresByTier ==
    /\ (result # Unset /\ complexity = "simple") =>
          /\ result.score_before = PromptScore(60, 50, 50, 53)
          /\ result.score_after = PromptScore(90, 85, 85, 87)
    /\ (result # Unset /\ complexity = "moderate") =>
          /\ result.score_before = PromptScore(70, 65, 60, 65)
          /\ result.score_after = PromptScore(85, 80, 80, 82)
    /\ (result # Unset /\ complexity = "complex") =>
          /\ CallKinds = <<"analysis", "enhancement", "score", "score">>
          /\ result.score_before = score_before
          /\ result.score_after = score_after
    /\ pc = "score_after" =>
          score_before = score_prompt(reply.text, req.prompt)
    /\ (complexity = "complex" /\ pc \in {"integrate", "respond"} /\ reply # Unset) =>
          score_after = score_prompt(reply.text, req.prompt)

\* C2, reached: a complex request returned with the scores of its two
\* scoring completions
C2_ComplexScoresFromCalls ==
    /\ result # Unset
    /\ complexity = "complex"
    /\ result.score_before = PromptScore(80, 70, 75, 76)
    /\ result.score_after = PromptScore(90, 50, 50, 50)

ScoreFields == {"clarity", "specificity", "completeness", "overall"}

InRange(score) == \A f \in ScoreFields : score[f] \in 0..100

\* scoring completions that are no JSON, no JSON object, or out of range
UnscorableTexts ==
    {"not json at all", ListJson, "Scores: " \o ScoreOutOfRangeJson}

\* C3: the eight score fields of every returned result lie in 0..100; a
\* scoring completion that cannot be parsed or is out of range gives the
\* score 50,50,50,50, and a scoring call that came back never ends the
\* request at that call.
C3_ScoresWithinRange ==
    /\ result # Unset => InRange(result.score_before) /\ InRange(result.score_after)
    /\ (pc = "score_after" /\ reply.text \in UnscorableTexts) =>
          score_before = FallbackScore
    /\ (complexity = "complex" /\ pc \in {"integrate", "respond"}
          /\ reply # Unset /\ reply.text \in UnscorableTexts) =>
          score_after = FallbackScore
    /\ (Done /\ reply # Unset /\ calls # <<>>
          /\ calls[Len(calls)].kind = "score") => ~reply.ok

\* C3, reached: the first scoring call was answered with out-of-range
\* scores and the fallback score was taken
C3_OutOfRangeFallsBack ==
    /\ pc = "score_after"
    /\ reply.ok
    /\ reply.text = "Scores: " \o ScoreOutOfRangeJson
    /\ score_before = FallbackScore

\* C4, as the specification states it: the enhanced text of a returned
\* result is neither empty nor the original prompt.
C4_EnhancedNeverEmptyNorOriginal ==
    result # Unset =>
        /\ result.enhanced_prompt # ""
        /\ result.enhanced_prompt # req.prompt

\* C5, as the specification states it: when every completion call came back,
\* whatever its text, enhance_prompt returns a result and the endpoint
\* answers 200.
C5_MalformedOutputNeverSurfaced ==
    (Done /\ Entered /\ AllCallsSucceeded) =>
        (outcome.status = "200" /\ result # Unset)

ResultFields ==
    {"original_prompt", "enhanced_prompt", "improvements", "explanation",
     "score_before", "score_after", "tips"}

\* C6: a completion call that fails is the last call of the request; the
\* request ends there with the failure, without a result and without a
\* provider query; and a request that has ended has either a failure and no
\* result, or a result with all its fields.
C6_TransportFailureEndsRequest ==
    /\ \A i \in 1..Len(calls) :
          ~calls[i].ok =>
              /\ i = Len(calls)
              /\ Done
              /\ outcome = [status |-> "500", error |-> "transport"]
              /\ result = Unset
              /\ queries = <<>>
    /\ (Done /\ Entered) =>
          \/ outcome.status = "500" /\ result = Unset
          \/ outcome.status = "200" /\ DOMAIN result = ResultFields

\* C6, reached: the first scoring call of a complex request failed and the
\* request ended with the failure
C6_ScoringCallFailed ==
    /\ Done
    /\ Len(calls) = 3
    /\ ~calls[3].ok
    /\ outcome.status = "500"
    /\ result = Unset

\* every provider query of the request was answered with an error
AllQueriesFailed ==
    /\ queries # <<>>
    /\ pending = <<>>
    /\ \A i \in 1..Len(queries) : ~queries[i].reply.ok

\* C7, as the specification states it: with the fetch flag set and every
\* provider query answered with an error, the request goes on to its
\* response with the enhanced text it had before knowledge integration.
C7_ProviderErrorsLeaveTextUnchanged ==
    (req.fetch /\ AllQueriesFailed) =>
        /\ pc \in {"respond", "done"}
        /\ enhanced.d["enhanced_prompt"] = integrating
        /\ result # Unset => JStr(result.enhanced_prompt) = integrating

\* C8, as the specification states it: after an enhancement completion that
\* is "not json at all" the enhancement has an explanation and tips, and its
\* text is the prompt with a fixed suffix or the sort example, never empty
\* and never the prompt itself.
C8_UnparseableEnhancementFallsBack ==
    (reply # Unset /\ reply.ok /\ reply.text = "not json at all"
       /\ calls[Len(calls)].kind \in {"simple", "enhancement"}) =>
        /\ pc # "done"
        /\ IsDict(enhanced)
        /\ HasKey(enhanced, "explanation")
        /\ HasKey(enhanced, "tips")
        /\ enhanced.d["enhanced_prompt"] \in
              { JStr(req.prompt \o DefaultSuffix), JStr(SortExample),
                JStr(req.prompt \o " (Please provide more specific details)") }
        /\ enhanced.d["enhanced_prompt"] # JStr("")
        /\ enhanced.d["enhanced_prompt"] # JStr(req.prompt)

\* a request of gpt-enhance that carries a document and passes the length
\* check
DocumentRequest ==
    /\ req.endpoint = "gpt-enhance"
    /\ req.document # ""
    /\ ~TooShort(req.prompt)

Classified == pc \in {"classified", "advised"}

\* needs_role has answered
Advised == pc = "advised"

\* twice the sum of the contributions get_complexity_level made
Accumulator2 ==
    signals.simple_query + signals.length + signals.multi_step
    + signals.technical + signals.creation + signals.scope_simple
    + signals.scope_complex + signals.multiple + signals.constraint
    + signals.question + signals.code

\* C11: the tier is a threshold of the summed accumulator, half-integer sums
\* included: a sum of at most -1 is simple, a sum above -1 and at most 3 is
\* moderate, a sum above 3 is complex (so -1 is simple, -0.5 and 3 are
\* moderate, 3.5 is complex), and every sum has exactly one tier.
C11_TierIsThresholdOfAccumulator ==
    Classified =>
        /\ complexity \in {"simple", "moderate", "complex"}
        /\ complexity = "simple" <=> Accumulator2 <= -2
        /\ complexity = "moderate" <=> (Accumulator2 > -2 /\ Accumulator2 <= 6)
        /\ complexity = "complex" <=> Accumulator2 > 6
        /\ Accumulator2 = -2 => complexity = "simple"
        /\ Accumulator2 \in {-1, 6} => complexity = "moderate"
        /\ Accumulator2 = 7 => complexity = "complex"

\* C11, reached: a text whose contributions sum to 3.5, with one multi-step
\* indicator weighing 1.5, was classified complex
C11_ThreeAndAHalfIsComplex ==
    /\ Classified
    /\ Accumulator2 = 7
    /\ signals.multi_step = 3
    /\ complexity = "complex"

\* none of the ten signals added a positive amount
NoPositiveSignal == \A f \in DOMAIN signals : signals[f] <= 0

\* C12: a text of fewer than 10 words that contains a simple-query pattern
\* and triggers no positive signal is classified simple; and each prompt the
\* test table expects to be simple ("What's the capital of France?",
\* "Calculate 15% of 200", "Convert 100 USD to EUR", "Define machine
\* learning", "List 5 fruits", "What is 2+2?") is classified simple.
C12_ShortLookupQueriesAreSimple ==
    /\ ( /\ Classified
          /\ WordCount(req.prompt) < 10
          /\ AnyIn(Lower(req.prompt),
                   { "what is", "what's", "how many", "how much", "when is",
                     "when was", "where is", "list", "name", "define",
                     "calculate", "convert", "translate" })
          /\ NoPositiveSignal )
         => complexity = "simple"
    /\ ( /\ Classified
          /\ req.prompt \in { "What's the capital of France?",
                               "Calculate 15% of 200", "Convert 100 USD to EUR",
                               "Define machine learning", "List 5 fruits",
                               "What is 2+2?" } )
         => complexity = "simple"

\* C12, reached: "Convert 100 USD to EUR", five words with the pattern
\* "convert" and no positive signal, was classified simple
C12_ConvertIsSimple ==
    /\ Classified
    /\ req.prompt = "Convert 100 USD to EUR"
    /\ signals.simple_query = -4
    /\ signals.length = 0
    /\ NoPositiveSignal
    /\ complexity = "simple"

\* C13, as the specification states it: each prompt the test table expects
\* to be moderate ("Write a Python function to reverse a string", "Explain
\* how photosynthesis works", "Create a simple todo list in JavaScript",
\* "Compare Python and JavaScript", "Analyze customer data") is classified
\* moderate.
C13_TablePromptsAreModerate ==
    ( /\ Classified
      /\ req.prompt \in { "Write a Python function to reverse a string",
                           "Explain how photosynthesis works",
                           "Create a simple todo list in JavaScript",
                           "Compare Python and JavaScript",
                           "Analyze customer data" } )
     => complexity = "moderate"

\* C14: a text that contains a creation indicator not softened by "simple",
\* together with a complexity-scope word and no simple-query pattern, is
\* classified complex whatever its length; and each prompt the test table
\* expects to be complex, the three-word "build an app" included, is
\* classified complex.
C14_BuildingTasksAreComplex ==
    /\ ( /\ Classified
          /\ LET prompt_lower == Lower(req.prompt)
             IN  \E verb \in { "build", "create", "develop", "make",
                                "construct", "generate", "write a program",
                                "write an app", "write a system",
                                "build an app" } :
                    /\ Contains(prompt_lower, verb)
                    /\ ~(verb \in {"create", "make"}
                           /\ Contains(prompt_lower, "simple"))
          /\ AnyIn(Lower(req.prompt), scope_complex)
          /\ ~AnyIn(Lower(req.prompt), simple_patterns) )
         => complexity = "complex"
    /\ \A t \in test_prompts :
          (Classified /\ req.prompt = t[1] /\ t[2] = "complex")
              => complexity = "complex"

\* C14, reached: a four-word text with a creation verb and a scope word
\* was classified complex
C14_ShortScopedBuildIsComplex ==
    /\ Classified
    /\ req.prompt = "Develop a scalable app"
    /\ signals.length = -2
    /\ signals.creation = 6
    /\ signals.scope_complex = 6
    /\ complexity = "complex"

\* the lowercased, trimmed text begins with a recognized simple-query phrase
BeginsWithSimpleQuery ==
    LET prompt_lower == Strip(Lower(req.prompt))
    IN  \E phrase \in SIMPLE_QUERY_INDICATORS : StartsWith(prompt_lower, phrase)

\* the text already contains self-referential role language
HasRoleLanguage ==
    AnyIn(Lower(req.prompt), {"you are", "act as", "pretend to be", "imagine you're"})

\* the text contains one of the action-verb indicators
HasActionVerb ==
    AnyIn(Lower(req.prompt),
          { "write", "create", "design", "analyze", "review", "optimize",
            "debug", "explain like", "act as", "pretend", "imagine", "develop",
            "architect", "diagnose", "troubleshoot", "evaluate", "assess",
            "critique", "refactor" })

\* C15: needs_role answers (false, none), in every domain and whatever
\* action verbs the text contains, when the lowercased trimmed text begins
\* with a simple-query phrase, or the text has fewer than 5 words, or the
\* text already contains role language.
C15_NeedsRoleShortCircuits ==
    (Advised /\ (BeginsWithSimpleQuery \/ WordCount(req.prompt) < 5 \/ HasRoleLanguage))
        => advice = <<FALSE, None>>

\* C15, reached: in the coding domain a seven-word text that begins with
\* "define" and contains the action verb "design" was answered (false, none)
C15_SimpleQueryWithVerbGetsNoRole ==
    /\ Advised
    /\ req.context = "coding"
    /\ req.prompt = "Define how to design a scalable app"
    /\ BeginsWithSimpleQuery
    /\ HasActionVerb
    /\ WordCount(req.prompt) >= 5
    /\ ~HasRoleLanguage
    /\ advice = <<FALSE, None>>

\* no short circuit of needs_role applies to the text
PastShortCircuits ==
    /\ WordCount(req.prompt) >= 5
    /\ ~BeginsWithSimpleQuery
    /\ ~HasRoleLanguage

\* C16: for a text of at least 5 words that neither begins with a
\* simple-query phrase nor contains role language, needs_role answers
\* needs = true in the domains coding, writing and technical, action verb
\* or not; in the domains analysis, creative and general it answers needs =
\* true exactly when the text contains an action-verb indicator.
C16_NeedsByDomainOrVerb ==
    (Advised /\ PastShortCircuits) =>
        /\ req.context \in {"coding", "writing", "technical"} => advice[1]
        /\ req.context \in {"analysis", "creative", "general"} =>
              (advice[1] <=> HasActionVerb)

\* C16, reached: in the technical domain a text without any action verb was
\* answered needs = true
C16_DomainAloneGivesRole ==
    /\ Advised
    /\ req.context = "technical"
    /\ req.prompt = "Tell me about a report on sales metrics"
    /\ PastShortCircuits
    /\ ~HasActionVerb
    /\ advice[1]

\* C17, as the specification states it: for a text that matches both a
\* simple-query pattern and an explanation pattern ("explain", "describe
\* how", "how does"), signal 1 adds +1 to the accumulator, not -2.
C17_ExplanationOverridesLookup ==
    ( /\ Classified
      /\ AnyIn(Lower(req.prompt),
               { "what is", "what's", "how many", "how much", "when is",
                 "when was", "where is", "list", "name", "define",
                 "calculate", "convert", "translate" })
      /\ AnyIn(Lower(req.prompt), {"explain", "describe how", "how does"}) )
     => signals.simple_query = 2

\* the creation indicators of signal 5 that the text contains
CreationMatches ==
    LET prompt_lower == Lower(req.prompt)
    IN  { verb \in { "build", "create", "develop", "make", "construct",
                     "generate", "write a program", "write an app",
                     "write a system", "build an app" } :
            Contains(prompt_lower, verb) }

\* the matched indicators that "simple" softens
SoftenedMatches ==
    IF Contains(Lower(req.prompt), "simple")
    THEN CreationMatches \cap {"create", "make"}
    ELSE {}

\* C18, as the specification states it: a text that contains a building
\* verb gets a single amount from the creation signal, +3, or +1 when the
\* text also contains "simple" and the verb is "create" or "make", however
\* many creation indicators it matches.
C18_CreationSignalAddsOnce ==
    Classified =>
        \/ CreationMatches = {} /\ signals.creation = 0
        \/ SoftenedMatches # {} /\ signals.creation = 2
        \/ CreationMatches \ SoftenedMatches # {} /\ signals.creation = 6

\* C18, amended: the creation signal adds an amount for every creation
\* indicator the text contains, +3 for each, or +1 for "create" or "make"
\* when the text also contains "simple"; the contribution grows with the
\* number of indicators matched.
C18_CreationSignalAddsPerIndicator ==
    Classified =>
        signals.creation =
            6 * Cardinality(CreationMatches \ SoftenedMatches)
            + 2 * Cardinality(SoftenedMatches)

\* C18, reached: "build an app" matches "build" and "build an app" and got
\* 3 + 3 from the creation signal
C18_TwoIndicatorsAddTwice ==
    /\ Classified
    /\ req.prompt = "build an app"
    /\ Cardinality(CreationMatches) = 2
    /\ signals.creation = 12

\* C19, as the specification states it: a simplicity word ("basic",
\* "simple", "quick", "small") subtracts 1 exactly when the text contains
\* none of the building verbs of signal 5 (build, create, develop,
\* construct, generate, make); a complexity-amplifying word adds 3, once,
\* however many such words occur.
C19_ScopeSignal ==
    Classified =>
        /\ signals.scope_simple = -2 <=>
              /\ AnyIn(Lower(req.prompt), {"basic", "simple", "quick", "small"})
              /\ ~AnyIn(Lower(req.prompt),
                        { "build", "create", "develop", "construct",
                          "generate", "make" })
        /\ signals.scope_simple \in {-2, 0}
        /\ signals.scope_complex =
              IF AnyIn(Lower(req.prompt),
                       { "entire", "full", "complete", "comprehensive",
                         "production", "enterprise", "scalable", "real-time",
                         "production-ready" })
              THEN 6 ELSE 0

\* the keyword buckets of the general domain, as the text matches them
MatchesBucket(words) == AnyIn(Strip(Lower(req.prompt)), words)

\* C20: when needs_role answers needs = true the role label is never none,
\* and when it answers needs = false the label is none; in a domain other
\* than general the label is the fixed value of the domain; in the general
\* domain it is the label of the first bucket the text matches, in the
\* order code words, essay/article words, data/metrics words, design/UI
\* words, and "expert assistant" when no bucket matches.
C20_RoleLabel ==
    Advised =>
        /\ advice[1] => advice[2] # None
        /\ ~advice[1] => advice[2] = None
        /\ (advice[1] /\ req.context # "general") =>
              advice[2] =
                  CASE req.context = "coding" -> "expert software engineer"
                    [] req.context = "writing" -> "professional writer and editor"
                    [] req.context = "analysis" -> "data analyst"
                    [] req.context = "creative" -> "creative professional"
                    [] req.context = "technical" -> "technical expert"
        /\ (advice[1] /\ req.context = "general") =>
              advice[2] =
                  IF MatchesBucket({"code", "program", "function", "algorithm"})
                  THEN "expert software engineer"
                  ELSE IF MatchesBucket({"essay", "article", "blog", "story"})
                  THEN "professional writer"
                  ELSE IF MatchesBucket({"data", "statistics", "metrics", "analysis"})
                  THEN "data analyst"
                  ELSE IF MatchesBucket({"design", "ui", "ux", "interface"})
                  THEN "UI/UX designer"
                  ELSE "expert assistant"

\* C20, reached: in the general domain a text with essay, data and design
\* words, and no code word, was given the writer's label
C20_EssayBeforeDataAndDesign ==
    /\ Advised
    /\ req.context = "general"
    /\ req.prompt = "Please review a basic article on data and interface trends"
    /\ ~MatchesBucket({"code", "program", "function", "algorithm"})
    /\ MatchesBucket({"essay", "article", "blog", "story"})
    /\ MatchesBucket({"data", "statistics", "metrics", "analysis"})
    /\ MatchesBucket({"design", "ui", "ux", "interface"})
    /\ advice = <<TRUE, "professional writer">>

(***************************************************************************)
(* Properties of the improvements list                                     *)
(***************************************************************************)

\* the items of a list field of the analysis; no items when the field is
\* absent
AnalysisList(key) ==
    IF IsDict(analysis) /\ HasKey(analysis, key) /\ IsList(analysis.d[key])
    THEN analysis.d[key].xs
    ELSE <<>>

\* the length of seq, but no more than cap
Capped(seq, cap) == IF Len(seq) < cap THEN Len(seq) ELSE cap

\* C21: the improvements of a returned result are, in this order, one
\* Clarity entry for each of the first 3 ambiguities, one Completeness entry
\* for each of the first 3 missing elements, one Context entry for each of
\* the first 2 context gaps, each in the order of its list, and then the
\* constant Structure entry, which is last; the list has between 1 and 9
\* entries, the strengths give none, and a result of the simple tier has
\* the Structure entry alone.
C21_ImprovementsFromAnalysis ==
    result # Unset =>
        LET imps == result.improvements
            amb == AnalysisList("ambiguities")
            mis == AnalysisList("missing_elements")
            gaps == AnalysisList("context_gaps")
            a == Capped(amb, 3)
            m == Capped(mis, 3)
            g == Capped(gaps, 2)
        IN  /\ Len(imps) = a + m + g + 1
            /\ Len(imps) \in 1..9
            /\ \A i \in 1..a :
                  imps[i] = Improvement("Clarity",
                      "Clarified ambiguous element: " \o amb[i].s)
            /\ \A i \in 1..m :
                  imps[a + i] = Improvement("Completeness",
                      "Added missing element: " \o mis[i].s)
            /\ \A i \in 1..g :
                  imps[a + m + i] = Improvement("Context",
                      "Added context: " \o gaps[i].s)
            /\ imps[Len(imps)] =
                  Improvement("Structure",
                              "Reorganized prompt for better AI comprehension")
            /\ \A i \in 1..(Len(imps) - 1) : imps[i].category # "Structure"
            /\ complexity = "simple" => Len(imps) = 1

\* C21, reached: an analysis with 4 ambiguities, 1 missing element, 1
\* strength and 3 context gaps gave 3 + 1 + 2 + 1 entries
C21_CapsApplied ==
    /\ result # Unset
    /\ Len(AnalysisList("ambiguities")) = 4
    /\ Len(AnalysisList("strengths")) = 1
    /\ Len(AnalysisList("context_gaps")) = 3
    /\ Len(result.improvements) = 7
    /\ result.improvements[6] = Improvement("Context", "Added context: use case")
(***************************************************************************)
(* Properties of the knowledge gate                                        *)
(***************************************************************************)

\* should_enhance_with_knowledge has answered
Decided == pc = "decided"

\* 1 for a signal that is present
Signal(present) == IF present THEN 1 ELSE 0

\* the domain is coding, technical or analysis
TechnicalDomain == req.context \in {"coding", "technical", "analysis"}

\* the text names one of the five technology words of the gate
MentionsTechnology ==
    LET text == Lower(req.prompt)
    IN  \E word \in {"gpt-5", "api", "framework", "latest", "current"} :
            Contains(text, word)

\* the text has more than 20 words
LongForm == WordCount(req.prompt) > 20

\* C22: should_enhance_with_knowledge answers true for the preference
\* "always" and false for "never", and then no check was made; with no
\* preference it answers true exactly when 3 for a time-sensitive text, 2
\* for a coding, technical or analysis domain, 2 for a named technology and
\* 1 for more than 20 words add up to 3 or more.
C22_PreferenceThenWeightedScore ==
    Decided =>
        /\ user_preference = "always" => (should_enhance = TRUE /\ checks = Unset)
        /\ user_preference = "never" => (should_enhance = FALSE /\ checks = Unset)
        /\ user_preference = None =>
              /\ checks # Unset
              /\ should_enhance =
                    (3 * Signal(should_fetch_current_info(req.prompt, req.context))
                     + 2 * Signal(TechnicalDomain)
                     + 2 * Signal(MentionsTechnology)
                     + 1 * Signal(LongForm) >= 3)

\* C22, reached: a text whose signals add up to 7 was refused on the
\* preference "never", without a check
C22_NeverOverridesFullScore ==
    /\ Decided
    /\ user_preference = "never"
    /\ should_fetch_current_info(req.prompt, req.context)
    /\ TechnicalDomain
    /\ MentionsTechnology
    /\ ~LongForm
    /\ should_enhance = FALSE
    /\ checks = Unset

\* C29: with no preference, should_enhance_with_knowledge answers true
\* exactly when should_fetch_current_info holds, or the domain is coding,
\* technical or analysis and the text has more than 20 words; and a text
\* that names one of the five technology words always has
\* should_fetch_current_info true.
C29_GateIsFetchOrLongTechnical ==
    (Decided /\ user_preference = None) =>
        /\ should_enhance =
              (\/ should_fetch_current_info(req.prompt, req.context)
               \/ TechnicalDomain /\ LongForm)
        /\ MentionsTechnology => checks.is_time_sensitive
        /\ \A word \in {"gpt-5", "api", "framework", "latest", "current"} :
              \/ word \in time_sensitive_keywords
              \/ \E term \in technical_terms_needing_updates : word = Lower(term)

\* C29, reached: with no preference, a long text of the coding domain that
\* should_fetch_current_info refuses was accepted
C29_LongTechnicalAccepted ==
    /\ Decided
    /\ user_preference = None
    /\ ~should_fetch_current_info(req.prompt, req.context)
    /\ ~MentionsTechnology
    /\ TechnicalDomain
    /\ LongForm
    /\ should_enhance = TRUE
(***************************************************************************)
(* Properties of knowledge integration                                     *)
(***************************************************************************)

\* should_fetch_current_info holds for the request's text and domain
ShouldFetch == should_fetch_current_info(req.prompt, req.context)

Spliced ==
    /\ integrating # Unset
    /\ pc \in {"respond", "done"}
    /\ pending = <<>>
    /\ current_info # <<>>
    /\ IsStr(integrating)

\* the number of the first line of text that starts with "###"; 0 if none
FirstMarker(text) ==
    LET lines == SplitLines(text)
        marked == { i \in 1..Len(lines) :
                      Len(lines[i]) >= 3 /\ SubSeq(lines[i], 1, 3) = "###" }
    IN  IF marked = {} THEN 0
        ELSE CHOOSE i \in marked : \A j \in marked : i <= j

\* the first n lines of text, each with its line end
LinesUpTo(text, n) ==
    LET lines == SplitLines(text)
        upto[i \in 0..n] ==
            IF i = 0 THEN "" ELSE upto[i - 1] \o lines[i] \o "\n"
    IN  upto[n]

\* the lines of text after the first n, as they stand in text
LinesAfter(text, n) == SubSeq(text, Len(LinesUpTo(text, n)) + 1, Len(text))

\* C24: where integrate_knowledge has spliced a temporal context, the text
\* is the lines of the text it was given up to and including the first line
\* that starts with "###" (none, if there is no such line), then the block,
\* then an empty line, then the remaining lines of the text it was given:
\* taking the block and its empty line out gives that text back.
C24_SpliceAfterFirstMarker ==
    Spliced =>
        \E current_date \in Dates :
            LET before == integrating.s
                after == enhanced.d["enhanced_prompt"].s
                block == generate_temporal_context(current_info, current_date)
                k == FirstMarker(before)
                n == Len(SplitLines(before))
            IN  /\ block # ""
                /\ after = IF k = n
                           THEN before \o "\n" \o block \o "\n"
                           ELSE LinesUpTo(before, k) \o block \o "\n\n"
                                \o LinesAfter(before, k)
                /\ k < n => LinesUpTo(before, k) \o LinesAfter(before, k) = before

\* C24, reached: a text whose second and fourth lines start with "###" got
\* the block after its second line
C24_BlockAfterSecondLine ==
    /\ Spliced
    /\ integrating.s = "Answer precisely\n### Instruction\nUse one sentence\n"
                       \o "### Output\nPlain text"
    /\ FirstMarker(integrating.s) = 2
    /\ StartsWith(enhanced.d["enhanced_prompt"].s,
                  "Answer precisely\n### Instruction\n### Temporal Context\n")
    /\ LinesAfter(enhanced.d["enhanced_prompt"].s,
                  Len(SplitLines(enhanced.d["enhanced_prompt"].s)) - 3)
         = "Use one sentence\n### Output\nPlain text"
(***************************************************************************)
(* Properties of the extraction of JSON from a completion                  *)
(***************************************************************************)

\* the three-step extraction: the contents of the fenced json block; else
\* the slice from the first "{" to the last "}"; else the whole completion
ThreeStep(response) ==
    IF Contains(response, "~~~json")
    THEN Strip(BeforeFirst(AfterFirst(response, "~~~json"), "~~~"))
    ELSE IF Contains(response, "{") /\ Contains(response, "}")
    THEN SubSeq(response, Find(response, "{"), RFind(response, "}"))
    ELSE response

\* the latest completion call was of this kind and came back with a
\* completion
Answered(kind) ==
    /\ reply # Unset
    /\ reply.ok
    /\ calls # <<>>
    /\ calls[Len(calls)].kind = kind

\* C25, as the specification states it: the JSON text taken from the
\* completion of an Analysis, enhancement, simple enhancement or scoring
\* call is that of the three-step extraction, and an Analysis completion
\* that holds a JSON object in surrounding prose gives the analysis of that
\* object.
C25_SameThreeStepExtraction ==
    /\ Answered("analysis") =>
          /\ AnalysisJsonStr(reply.text) = ThreeStep(reply.text)
          /\ reply.text = "Analysis: " \o AnalysisFullJson => analysis = AnalysisFull
    /\ Answered("enhancement") =>
          EnhancementJsonStr(reply.text) = ThreeStep(reply.text)
    /\ Answered("simple") =>
          EnhancementJsonStr(reply.text) = ThreeStep(reply.text)
    /\ Answered("score") =>
          ScoreJsonStr(reply.text) = ThreeStep(reply.text)
(***************************************************************************)
(* Properties of the document path                                         *)
(***************************************************************************)

\* the action of a document request: the instruction of the first verb, in
\* the order improve, summarize, analyze, edit, rewrite, review, translate,
\* explain, that the lowercased prompt contains; without such a verb the
\* fixed instruction for a prompt of fewer than 3 words, else the prompt
ActionOf(prompt) ==
    LET text == Lower(prompt)
    IN  IF Contains(text, "improve")
        THEN "Review and enhance the provided text for clarity and impact"
        ELSE IF Contains(text, "summarize")
        THEN "Create a concise summary of the key points"
        ELSE IF Contains(text, "analyze")
        THEN "Provide a detailed analysis of the content"
        ELSE IF Contains(text, "edit")
        THEN "Edit for grammar, style, and coherence"
        ELSE IF Contains(text, "rewrite")
        THEN "Rewrite the content for better clarity and flow"
        ELSE IF Contains(text, "review")
        THEN "Provide feedback and suggestions for improvement"
        ELSE IF Contains(text, "translate")
        THEN "Translate the content accurately"
        ELSE IF Contains(text, "explain")
        THEN "Explain the main concepts in simpler terms"
        ELSE IF Len(Words(prompt)) < 3
        THEN "Process and improve the provided document"
        ELSE prompt

\* C26: the text answered to a document request asks for the instruction of
\* the first verb of the lookup, in the order of the lookup and not of the
\* prompt, that the lowercased prompt contains; when it contains none, for
\* "Process and improve the provided document" if the prompt has fewer than
\* 3 words and for the prompt itself otherwise.
C26_ActionByTableOrder ==
    (Done /\ DocumentRequest) =>
        /\ outcome.status = "200"
        /\ StartsWith(outcome.body.enhanced_prompt,
                      "Given the document provided as context, please "
                      \o ActionOf(req.prompt)
                      \o ".\n\nDocument context to work with:\n")

\* C26, reached: a prompt with "edit" before "improve" was given the
\* instruction of "improve", the earlier verb of the lookup
C26_EarlierVerbOfLookupWins ==
    /\ Done
    /\ DocumentRequest
    /\ req.prompt = "Please edit and improve this"
    /\ Find(Lower(req.prompt), "edit") < Find(Lower(req.prompt), "improve")
    /\ StartsWith(outcome.body.enhanced_prompt,
                  "Given the document provided as context, please Review and "
                  \o "enhance the provided text for clarity and impact.")
(***************************************************************************)
(* Properties of the analysis fallback                                     *)
(***************************************************************************)

\* the Analysis call came back with a completion json.loads refuses
AnalysisUnparsed ==
    /\ Answered("analysis")
    /\ JsonLoads(AnalysisJsonStr(reply.text), req.prompt).raised

\* C30, as the specification states it: an Analysis completion that cannot
\* be parsed gives the analysis with intent "Unable to parse" and four empty
\* lists; the request goes on to its enhancement call, and in the complex
\* tier to its two scoring calls; and when all its calls came back it
\* returns a result whose improvements are the Structure entry alone.
C30_UnparsedAnalysisStillReturns ==
    /\ AnalysisUnparsed =>
          /\ analysis = JDict([intent |-> JStr("Unable to parse"),
                               ambiguities |-> JList(<<>>),
                               missing_elements |-> JList(<<>>),
                               strengths |-> JList(<<>>),
                               context_gaps |-> JList(<<>>)])
          /\ pc = "generate"
    /\ (Done /\ AllCallsSucceeded /\ analysis = AnalysisFallback) =>
          /\ CallKinds = IF complexity = "complex"
                         THEN <<"analysis", "enhancement", "score", "score">>
                         ELSE <<"analysis", "enhancement">>
          /\ result # Unset
          /\ result.improvements =
                <<Improvement("Structure",
                              "Reorganized prompt for better AI comprehension")>>
(***************************************************************************)
(* Termination                                                             *)
(***************************************************************************)

\* the completion calls of each tier, in their order
TierCalls ==
    CASE complexity = "simple" -> <<"simple">>
      [] complexity = "moderate" -> <<"analysis", "enhancement">>
      [] complexity = "complex" -> <<"analysis", "enhancement", "score", "score">>
      [] OTHER -> <<>>

\* no completion call and no provider query is made twice: the calls so far
\* are the first calls of the tier, each made once, a failed call is the
\* last one, and the queries so far are the first search terms, each asked
\* once
NoRetry ==
    /\ Len(calls) <= Len(TierCalls)
    /\ CallKinds = SubSeq(TierCalls, 1, Len(calls))
    /\ \A i \in 1..Len(calls) : ~calls[i].ok => i = Len(calls)
    /\ LET terms == extract_search_terms(req.prompt, req.context)
       IN  /\ Len(queries) <= Len(terms)
           /\ \A i \in 1..Len(queries) : queries[i].query = terms[i]

\* the request has ended with a response: a result, a failure, or the
\* answer of a path that does not enter enhance_prompt
Ended ==
    /\ Done
    /\ Entered =>
          \/ outcome.status = "200" /\ result # Unset
          \/ outcome.status = "500" /\ result = Unset

\* C28: every request eventually ends, with a returned result or a raised
\* failure; on the way no call is made again, and there are never more than
\* 4 completion calls nor more than 2 provider queries.
C28_EveryRequestTerminates ==
    /\ <>Ended
    /\ [](NoRetry /\ Len(calls) <= 4 /\ Len(queries) <= 2)

\* C28, reached: a request of the complex tier ended with a result after 4
\* completion calls and a provider query
C28_FourCallsAndAQuery ==
    /\ Ended
    /\ result # Unset
    /\ Len(calls) = 4
    /\ queries # <<>>

(***************************************************************************)
(* Properties of two requests in flight                                    *)
(***************************************************************************)

====
